---------------------------- MODULE Spec2Model ----------------------------
(***************************************************************************)
(* A model of three components of SHARPy:                                  *)
(*   - the StaticUvlm solver (sharpy/solvers/staticuvlm.py),               *)
(*   - the AeroForcesCalculator post-processor                             *)
(*     (sharpy/postproc/aeroforcescalculator.py): its force totals, its    *)
(*     coefficient normalisation and its screen and text-file output,      *)
(*   - the LinearAeroelastic assembler                                     *)
(*     (sharpy/linear/assembler/linearaeroelastic.py).                     *)
(* Python lists are modelled as sequences: the snapshot the code calls     *)
(* timestep_info[i] is element i + 1 of the sequence.                     *)
(***************************************************************************)
EXTENDS Integers, Sequences, FiniteSets, TLC

VARIABLES
    (* ---- StaticUvlm and the data object it works on ---- *)
    sinit,            \* StaticUvlm.initialise has run (self.data is not None)
    settings,         \* self.settings of StaticUvlm
    ts,               \* data.ts
    aero,             \* data.aero.timestep_info
    nonlifting_body,  \* data.nonlifting_body.timestep_info
    structure,        \* data.structure.timestep_info
    trace,            \* the calls the last operation made on its collaborators, in order
    last,             \* the last operation, with what it saw when it was called
    clock,            \* number of operations so far; a write stores it as a stamp
    err,              \* the exception the last operation ended with, or "none"
    (* ---- AeroForcesCalculator ---- *)
    presharpy,        \* the parts of data fixed at setup (mapping, structure settings)
    afc,              \* the AeroForcesCalculator object: settings, ts_max, ts
    coef,             \* the arguments and the result of the last calculate_coefficients
    output,           \* what the last operation printed on screen or wrote to files
    (* ---- LinearAeroelastic ---- *)
    lin               \* the LinearAeroelastic object, its components and its data

vars == <<sinit, settings, ts, aero, nonlifting_body, structure, trace, last, clock, err,
          presharpy, afc, coef, output, lin>>

\* What a StaticUvlm operation leaves alone: the post-processor's state.
postproc_vars == <<presharpy, afc, coef, output, lin>>

(***************************************************************************)
(* Bounds                                                                  *)
(***************************************************************************)
MaxOps == 4        \* operations in one behaviour of the StaticUvlm model
MaxSurf == 1       \* lifting surfaces of the aerodynamic grid: 0..MaxSurf
MaxBody == 1       \* nonlifting bodies: 0..MaxBody

(***************************************************************************)
(* StaticUvlm: settings                                                    *)
(***************************************************************************)
\* settings_default['nonlifting_body_interactions'], settings_default['only_nonlifting']
settings_default ==
    [nonlifting_body_interactions |-> FALSE, only_nonlifting |-> FALSE]

\* The values settings.to_custom_types can leave in self.settings: each of
\* the two 'bool' settings is given or takes its default.
SettingsSet ==
    [nonlifting_body_interactions : BOOLEAN, only_nonlifting : BOOLEAN]

(***************************************************************************)
(* Snapshots.  A field is a list with one entry per surface; an entry is   *)
(* the stamp of the operation that wrote it last (0: as allocated).        *)
(***************************************************************************)
Field(n) == [i \in 1..n |-> 0]

AeroTimeStepInfo(n) ==
    [zeta |-> Field(n), zeta_star |-> Field(n), u_ext |-> Field(n), gamma |-> Field(n)]

NonliftingTimeStepInfo(n) ==
    [zeta |-> Field(n), u_ext |-> Field(n), sigma |-> Field(n)]

StructTimeStepInfo == [for_pos |-> 0]

\* A collaborator writing a buffer it was handed: every entry is overwritten.
Written(f, c) == [i \in DOMAIN f |-> c]

\* The state a StaticUvlm operation threads through its calls.
Data(a, n, tr, e) == [aero |-> a, nl |-> n, trace |-> tr, err |-> e]

\* timestep_info[i] exists (Python index i >= 0, no negative index is used).
HasIndex(hist, i) == i + 1 \in 1..Len(hist)


(***************************************************************************)
(* Collaborators of StaticUvlm.  Each takes the data d, the index i of the *)
(* snapshot it is handed and the stamp c it writes.  An exception raised   *)
(* earlier in the same operation (d.err) skips everything after it; the    *)
(* writes made before it stay, since the buffers are written in place.     *)
(***************************************************************************)
\* data.aero.wake_shape_generator.generate: reshapes the wake it is handed.
WakeShapeGenerate(d, i, c) ==
    IF d.err # "none" THEN d
    ELSE IF ~HasIndex(d.aero, i) THEN [d EXCEPT !.err = "IndexError"]
    ELSE [d EXCEPT !.aero[i + 1].zeta_star = Written(@, c),
                   !.trace = Append(@, "wake_shape_generator.generate")]

\* velocity_generator.generate({'zeta': nonlifting_body.timestep_info[i].zeta, ...},
\*                             nonlifting_body.timestep_info[i].u_ext)
VelocityGenerateNonlifting(d, i, c) ==
    IF d.err # "none" THEN d
    ELSE IF ~HasIndex(d.nl, i) THEN [d EXCEPT !.err = "IndexError"]
    ELSE [d EXCEPT !.nl[i + 1].u_ext = Written(@, c),
                   !.trace = Append(@, "velocity_generator.generate(nonlifting_body)")]

\* velocity_generator.generate({'zeta': aero.timestep_info[i].zeta, ...},
\*                             aero.timestep_info[i].u_ext)
VelocityGenerateAero(d, i, c) ==
    IF d.err # "none" THEN d
    ELSE IF ~HasIndex(d.aero, i) THEN [d EXCEPT !.err = "IndexError"]
    ELSE [d EXCEPT !.aero[i + 1].u_ext = Written(@, c),
                   !.trace = Append(@, "velocity_generator.generate(aero)")]

\* uvlmlib.vlm_solver_nonlifting_body(nonlifting_body.timestep_info[i], settings)
vlm_solver_nonlifting_body(d, i, c) ==
    IF d.err # "none" THEN d
    ELSE IF ~HasIndex(d.nl, i) THEN [d EXCEPT !.err = "IndexError"]
    ELSE [d EXCEPT !.nl[i + 1].sigma = Written(@, c),
                   !.trace = Append(@, "vlm_solver_nonlifting_body")]

\* uvlmlib.vlm_solver_lifting_and_nonlifting_bodies(aero.timestep_info[i],
\*                                                  nonlifting_body.timestep_info[i], settings)
vlm_solver_lifting_and_nonlifting_bodies(d, i, c) ==
    IF d.err # "none" THEN d
    ELSE IF ~HasIndex(d.aero, i) \/ ~HasIndex(d.nl, i) THEN [d EXCEPT !.err = "IndexError"]
    ELSE [d EXCEPT !.aero[i + 1].gamma = Written(@, c),
                   !.nl[i + 1].sigma = Written(@, c),
                   !.trace = Append(@, "vlm_solver_lifting_and_nonlifting_bodies")]

\* uvlmlib.vlm_solver(aero.timestep_info[i], settings)
vlm_solver(d, i, c) ==
    IF d.err # "none" THEN d
    ELSE IF ~HasIndex(d.aero, i) THEN [d EXCEPT !.err = "IndexError"]
    ELSE [d EXCEPT !.aero[i + 1].gamma = Written(@, c),
                   !.trace = Append(@, "vlm_solver")]

\* data.aero.generate_zeta(structure, aero_settings, i): regenerates the
\* geometry of the aerodynamic snapshot i from the structure.
GenerateZetaAero(d, i, c) ==
    IF d.err # "none" THEN d
    ELSE IF ~HasIndex(d.aero, i) THEN [d EXCEPT !.err = "IndexError"]
    ELSE [d EXCEPT !.aero[i + 1].zeta = Written(@, c),
                   !.trace = Append(@, "aero.generate_zeta")]

\* data.nonlifting_body.generate_zeta(structure, aero_settings, i)
GenerateZetaNonlifting(d, i, c) ==
    IF d.err # "none" THEN d
    ELSE IF ~HasIndex(d.nl, i) THEN [d EXCEPT !.err = "IndexError"]
    ELSE [d EXCEPT !.nl[i + 1].zeta = Written(@, c),
                   !.trace = Append(@, "nonlifting_body.generate_zeta")]

\* Aerogrid.add_timestep / NonliftingBodyGrid.add_timestep: the history gets
\* one more snapshot, a copy of the last one.
add_timestep(hist) == Append(hist, hist[Len(hist)])

(***************************************************************************)
(* StaticUvlm: the operations as functions of the data                     *)
(***************************************************************************)
\* StaticUvlm.update_step
update_step_last(d, s, i, c) ==
    LET d1 == GenerateZetaAero(d, Len(d.aero) - 1, c)
    IN  IF s.nonlifting_body_interactions
        THEN GenerateZetaNonlifting(d1, Len(d1.nl) - 1, c)
        ELSE d1

update_step(d, s, i, c) ==
    LET d1 == GenerateZetaAero(d, i, c)
    IN  IF s.nonlifting_body_interactions
        THEN GenerateZetaNonlifting(d1, i, c)
        ELSE d1

\* StaticUvlm.next_step
next_step_guarded_append(d, s, i, c) ==
    LET d1 == IF s.nonlifting_body_interactions
              THEN [d EXCEPT !.aero = add_timestep(@), !.nl = add_timestep(@)]
              ELSE d
    IN  update_step(d1, s, i, c)

next_step(d, s, i, c) ==
    LET d1 == [d EXCEPT !.aero = add_timestep(@)]
        d2 == IF s.nonlifting_body_interactions
              THEN [d1 EXCEPT !.nl = add_timestep(@)]
              ELSE d1
    IN  update_step(d2, s, i, c)

\* StaticUvlm.run, lines 149-189: what run does on a grid that is not empty.
run_solve(d, s, i, c) ==
    IF ~s.nonlifting_body_interactions
    THEN vlm_solver_nonlifting_body(VelocityGenerateNonlifting(d, i, c), i, c)
    ELSE IF s.nonlifting_body_interactions
    THEN vlm_solver_lifting_and_nonlifting_bodies(
             VelocityGenerateAero(VelocityGenerateNonlifting(d, i, c), i, c), i, c)
    ELSE vlm_solver(VelocityGenerateAero(d, i, c), i, c)

run_body_wake_last(d, s, i, c) ==
    WakeShapeGenerate(run_solve(d, s, i, c), i, c)

run_body(d, s, i, c) ==
    run_solve(WakeShapeGenerate(d, i, c), s, i, c)

\* StaticUvlm.run
run_no_empty_check(d, s, i, c) == run_body(d, s, i, c)

run(d, s, i, c) ==
    IF ~HasIndex(d.aero, i) THEN [d EXCEPT !.err = "IndexError"]
    ELSE IF Len(d.aero[i + 1].zeta) = 0 THEN d
    ELSE run_body(d, s, i, c)

(***************************************************************************)
(* StaticUvlm: the state machine                                           *)
(***************************************************************************)
Init ==
    /\ sinit = FALSE
    /\ settings = "None"
    /\ ts = 0
    /\ \E n \in 0..MaxSurf : aero = <<AeroTimeStepInfo(n)>>
    /\ \E n \in 0..MaxBody : nonlifting_body = <<NonliftingTimeStepInfo(n)>>
    /\ structure = <<StructTimeStepInfo>>
    /\ trace = <<>>
    /\ last = "__init__"
    /\ clock = 0
    /\ err = "none"
    /\ presharpy = "None"
    /\ afc = "None"
    /\ coef = "None"
    /\ output = <<>>
    /\ lin = "None"

Commit(d, op) ==
    /\ aero' = d.aero
    /\ nonlifting_body' = d.nl
    /\ trace' = d.trace
    /\ err' = d.err
    /\ last' = op
    /\ clock' = clock + 1

Fresh == Data(aero, nonlifting_body, <<>>, "none")

\* StaticUvlm.initialise(data, custom_settings): the settings come from
\* data.settings or from custom_settings, then update_step runs.
Initialise ==
    /\ ~sinit
    /\ clock < MaxOps
    /\ \E s \in SettingsSet :
          /\ settings' = s
          /\ Commit(update_step(Fresh, s, ts, clock + 1), "initialise")
    /\ sinit' = TRUE
    /\ UNCHANGED <<ts, structure>>
    /\ UNCHANGED postproc_vars

Run ==
    /\ sinit
    /\ clock < MaxOps
    /\ Commit(run(Fresh, settings, ts, clock + 1), "run")
    /\ UNCHANGED <<sinit, settings, ts, structure>>
    /\ UNCHANGED postproc_vars

NextStep ==
    /\ sinit
    /\ clock < MaxOps
    /\ Commit(next_step(Fresh, settings, ts, clock + 1), "next_step")
    /\ UNCHANGED <<sinit, settings, ts, structure>>
    /\ UNCHANGED postproc_vars

UpdateStep ==
    /\ sinit
    /\ clock < MaxOps
    /\ Commit(update_step(Fresh, settings, ts, clock + 1), "update_step")
    /\ UNCHANGED <<sinit, settings, ts, structure>>
    /\ UNCHANGED postproc_vars

\* The time-stepping orchestrator between two aerodynamic steps: the
\* structural update appends a structural snapshot and the timestep index
\* advances to a snapshot the aerodynamic history already holds.
AdvanceTimestep ==
    /\ sinit
    /\ clock < MaxOps
    /\ HasIndex(aero, ts + 1)
    /\ ts' = ts + 1
    /\ structure' = Append(structure, [for_pos |-> clock + 1])
    /\ trace' = <<>>
    /\ err' = "none"
    /\ last' = "advance_timestep"
    /\ clock' = clock + 1
    /\ UNCHANGED <<sinit, settings, aero, nonlifting_body>>
    /\ UNCHANGED postproc_vars

Next == Initialise \/ Run \/ NextStep \/ UpdateStep \/ AdvanceTimestep

Spec == Init /\ [][Next]_vars

(***************************************************************************)
(* StaticUvlm: properties                                                  *)
(***************************************************************************)
InTrace(e) == \E k \in 1..Len(trace) : trace[k] = e

IsWake(e) == e = "wake_shape_generator.generate"

IsInflow(e) ==
    e \in {"velocity_generator.generate(aero)",
           "velocity_generator.generate(nonlifting_body)"}

IsSolver(e) ==
    e \in {"vlm_solver", "vlm_solver_nonlifting_body",
           "vlm_solver_lifting_and_nonlifting_bodies"}

\* The current aerodynamic snapshot exists and its geometry is not empty.
GridNonEmpty == HasIndex(aero, ts) /\ Len(aero[ts + 1].zeta) > 0
GridEmpty == HasIndex(aero, ts) /\ Len(aero[ts + 1].zeta) = 0

\* C1: a run on a current aerodynamic snapshot with empty geometry calls no
\* collaborator (no wake shape generator, velocity generator or solver), ends
\* without an exception and leaves every aerodynamic, nonlifting-body and
\* structural snapshot as it was.
C1_EmptyGridRunIsNoOp ==
    [][(last' = "run" /\ GridEmpty)
         => /\ trace' = <<>>
            /\ err' = "none"
            /\ aero' = aero
            /\ nonlifting_body' = nonlifting_body
            /\ structure' = structure]_vars

\* A run has happened on an empty lifting grid while a nonlifting body with
\* panels exists (so that a solver call would have left a mark).
C1_Witness ==
    /\ last = "run"
    /\ GridEmpty
    /\ trace = <<>>
    /\ Len(nonlifting_body[ts + 1].zeta) > 0

\* C2 (as claimed): on a non-empty grid with nonlifting_body_interactions and
\* only_nonlifting both false, run generates the external velocity on the
\* lifting grid and calls vlm_solver; and the nonlifting-body-only solver is
\* called only when only_nonlifting is true.
C2_DefaultsSolveLiftingSurface ==
    (last = "run" /\ GridNonEmpty)
        => /\ (~settings.nonlifting_body_interactions /\ ~settings.only_nonlifting)
                 => (InTrace("velocity_generator.generate(aero)") /\ InTrace("vlm_solver"))
           /\ InTrace("vlm_solver_nonlifting_body") => settings.only_nonlifting

\* C3 (as claimed): in a run on a non-empty grid the inflow is generated,
\* then the solver is called, then the wake is shaped; the wake shape
\* generator never comes before an inflow generation or the solve.
C3_InflowSolveThenWake ==
    (last = "run" /\ GridNonEmpty)
        => /\ \E i, j, k \in 1..Len(trace) :
                 /\ i < j /\ j < k
                 /\ IsInflow(trace[i]) /\ IsSolver(trace[j]) /\ IsWake(trace[k])
           /\ \A w, k \in 1..Len(trace) :
                 (IsWake(trace[w]) /\ (IsInflow(trace[k]) \/ IsSolver(trace[k]))) => k < w

\* C3 (amended): in a run on a non-empty grid the wake shape generator is
\* called first and only once, before every inflow generation and the solve;
\* no inflow generation follows a solver call; and a run that ends without an
\* exception has generated the inflow and ends with exactly one solver call.
C3_WakeThenInflowThenSolve ==
    (last = "run" /\ GridNonEmpty)
        => /\ Len(trace) >= 1
           /\ IsWake(trace[1])
           /\ \A k \in 2..Len(trace) : ~IsWake(trace[k])
           /\ \A j, k \in 1..Len(trace) :
                 (IsSolver(trace[j]) /\ IsInflow(trace[k])) => k < j
           /\ err = "none"
                 => /\ IsSolver(trace[Len(trace)])
                    /\ Cardinality({k \in 1..Len(trace) : IsSolver(trace[k])}) = 1
                    /\ \E k \in 1..Len(trace) : IsInflow(trace[k])

\* A run on a non-empty grid has completed with all three kinds of call.
C3_Witness ==
    /\ last = "run"
    /\ GridNonEmpty
    /\ err = "none"
    /\ Len(trace) >= 3
    /\ IsSolver(trace[Len(trace)])

\* C4: the aerodynamic history is append-only: no step shortens it, a
\* next_step makes it exactly one snapshot longer, and initialise, run and
\* update_step leave its length as it was.
C4_AeroHistoryAppendOnly ==
    [][/\ Len(aero') >= Len(aero)
       /\ last' = "next_step" => Len(aero') = Len(aero) + 1
       /\ last' \in {"initialise", "run", "update_step"} => Len(aero') = Len(aero)]_vars

\* Two next_step calls have grown the history to three snapshots.
C4_Witness == last = "next_step" /\ Len(aero) >= 3

\* C5 (as claimed): after next_step returns, data.ts is one greater than
\* before the call.
C5_NextStepIncreasesTs == [][last' = "next_step" => ts' = ts + 1]_vars

\* C6: a run or an update_step changes no aerodynamic and no nonlifting-body
\* snapshot at an index other than data.ts, changes no structural snapshot and
\* removes or adds none.
C6_WritesOnlyCurrentSnapshot ==
    [][last' \in {"run", "update_step"}
         => /\ Len(aero') = Len(aero)
            /\ Len(nonlifting_body') = Len(nonlifting_body)
            /\ \A k \in 1..Len(aero) : k # ts + 1 => aero'[k] = aero[k]
            /\ \A k \in 1..Len(nonlifting_body) :
                  k # ts + 1 => nonlifting_body'[k] = nonlifting_body[k]
            /\ structure' = structure]_vars

\* An update_step or a run has written the current snapshot while the history
\* holds another snapshot that it left with older contents.
C6_Witness ==
    /\ last \in {"run", "update_step"}
    /\ trace # <<>>
    /\ \E k \in 1..Len(aero) :
          /\ k # ts + 1
          /\ Len(aero[k].zeta) > 0
          /\ aero[k].zeta # aero[ts + 1].zeta

\* C22 (as claimed): the nonlifting-body history is extended whenever it is
\* read: it always has the length of the aerodynamic history, and a run on
\* a grid that is not empty finds the nonlifting-body snapshot data.ts it
\* reads and does not end with an IndexError.
C22_NonliftingHistoryExtendedWheneverRead ==
    /\ Len(nonlifting_body) = Len(aero)
    /\ (last = "run" /\ HasIndex(aero, ts) /\ Len(aero[ts + 1].zeta) > 0)
          => (HasIndex(nonlifting_body, ts) /\ err # "IndexError")

(***************************************************************************)
(* AeroForcesCalculator: bounds and inputs                                 *)
(***************************************************************************)
MaxTs == 2         \* snapshots in the history of the AeroForcesCalculator model
NSurf == 2         \* lifting surfaces
NRows == 2         \* chordwise grid points of a surface
NCols == 2         \* spanwise grid points of a surface
NNodes == 2        \* structural nodes
MaxSeed == 1       \* force fields the solver may have produced: seeds 0..MaxSeed

(***************************************************************************)
(* Vectors and rotations (sharpy.utils.algebra, numpy), in exact integer   *)
(* arithmetic.  A vector is a tuple; a matrix is a tuple of rows.          *)
(***************************************************************************)
Zero(n) == IF n = 3 THEN <<0, 0, 0>> ELSE <<0, 0, 0, 0, 0, 0>>
VAdd(a, b) ==
    IF Len(a) = 3
    THEN <<a[1] + b[1], a[2] + b[2], a[3] + b[3]>>
    ELSE <<a[1] + b[1], a[2] + b[2], a[3] + b[3], a[4] + b[4], a[5] + b[5], a[6] + b[6]>>
VSub(a, b) == <<a[1] - b[1], a[2] - b[2], a[3] - b[3]>>
First3(v) == <<v[1], v[2], v[3]>>
Last3(v) == <<v[4], v[5], v[6]>>
Dot3(a, b) == a[1] * b[1] + a[2] * b[2] + a[3] * b[3]
MatVec(R, v) == <<Dot3(R[1], v), Dot3(R[2], v), Dot3(R[3], v)>>
Column(R, c) == <<R[1][c], R[2][c], R[3][c]>>
Transpose(R) == <<Column(R, 1), Column(R, 2), Column(R, 3)>>
MatMul(A, B) ==
    << <<Dot3(A[1], Column(B, 1)), Dot3(A[1], Column(B, 2)), Dot3(A[1], Column(B, 3))>>,
       <<Dot3(A[2], Column(B, 1)), Dot3(A[2], Column(B, 2)), Dot3(A[2], Column(B, 3))>>,
       <<Dot3(A[3], Column(B, 1)), Dot3(A[3], Column(B, 2)), Dot3(A[3], Column(B, 3))>> >>
cross3(a, b) ==
    <<a[2] * b[3] - a[3] * b[2], a[3] * b[1] - a[1] * b[3], a[1] * b[2] - a[2] * b[1]>>

\* The unit quaternions used as orientations, each stored as twice its
\* components so that they are integers: the rotation by 120 degrees about
\* (1,1,1), the half turn about z, the identity, and the rotation by 120
\* degrees about (-1,1,-1).
Quats == << <<1, 1, 1, 1>>, <<0, 0, 0, 2>>, <<2, 0, 0, 0>>, <<1, -1, 1, -1>> >>

\* algebra.quat2rotation on a unit quaternion given as twice its components
\* (every product of two components is therefore divided by 4).
quat2rotation(q) ==
    << << (q[1]*q[1] + q[2]*q[2] - q[3]*q[3] - q[4]*q[4]) \div 4,
          (2 * (q[2]*q[3] - q[1]*q[4])) \div 4,
          (2 * (q[2]*q[4] + q[1]*q[3])) \div 4 >>,
       << (2 * (q[2]*q[3] + q[1]*q[4])) \div 4,
          (q[1]*q[1] - q[2]*q[2] + q[3]*q[3] - q[4]*q[4]) \div 4,
          (2 * (q[3]*q[4] - q[1]*q[2])) \div 4 >>,
       << (2 * (q[2]*q[4] - q[1]*q[3])) \div 4,
          (2 * (q[3]*q[4] + q[1]*q[2])) \div 4,
          (q[1]*q[1] - q[2]*q[2] - q[3]*q[3] + q[4]*q[4]) \div 4 >> >>

\* algebra.crv2rotation: the nodal rotation psi is kept as the quaternion of
\* the same rotation.
crv2rotation(psi) == quat2rotation(psi)

\* StructTimeStepInfo.cag(): the transpose of cga() = quat2rotation(quat).
cag(struct_tstep) == Transpose(quat2rotation(struct_tstep.quat))

(***************************************************************************)
(* Python attributes: an object is a record, an attribute it lacks is a    *)
(* field it does not have (reading it raises AttributeError).              *)
(***************************************************************************)
HasAttr(o, name) == name \in DOMAIN o
SetAttr(o, name, v) == [k \in DOMAIN o \cup {name} |-> IF k = name THEN v ELSE o[k]]

(***************************************************************************)
(* The history the post-processor reads.  The forces of a snapshot are the *)
(* output of the aerodynamic solver: one 6-vector (force, moment) per grid *)
(* point, forces[i_surf][i_m][i_n], drawn from a family indexed by a seed. *)
(***************************************************************************)
ForceAt(seed, s, m, n) ==
    << ((seed + s + m) % 3) - 1,
       ((seed * s + n) % 3) - 1,
       ((seed + s * m * n) % 4) - 1,
       (seed + n) % 2,
       ((s + m) % 2) - 1,
       ((seed + m * n) % 3) - 1 >>

ForceField(seed) ==
    [s \in 1..NSurf |-> [m \in 1..NRows |-> [n \in 1..NCols |-> ForceAt(seed, s, m, n)]]]

DynamicForceField(seed) ==
    [s \in 1..NSurf |-> [m \in 1..NRows |-> [n \in 1..NCols |-> ForceAt(seed + 1, s, n, m)]]]

\* zeta[i_surf][i_m][i_n]: the position of a grid point in the inertial frame.
ZetaField ==
    [s \in 1..NSurf |-> [m \in 1..NRows |-> [n \in 1..NCols |-> <<m - 1, n, s - 1>>]]]

\* The structural snapshot of timestep t: orientation of the body frame
\* (the body turns from one timestep to the next), nodal positions and nodal
\* rotations.
StructSnapshot(t) ==
    [quat |-> Quats[(t % Len(Quats)) + 1],
     pos  |-> [node \in 1..NNodes |-> <<node, 0, node - 1>>],
     psi  |-> [node \in 1..NNodes |-> Quats[((node + t) % Len(Quats)) + 1]]]

\* data.aero.struct2aero_mapping: for each structural node the list of the
\* spanwise columns {i_surf, i_n} attached to it.  Every column is attached
\* to exactly one node; the three tables differ in which.
MappingKinds == {"by_column", "by_surface", "single_node"}

NodeOf(kind, e) ==
    CASE kind = "by_column"  -> ((e.i_n - 1) % NNodes) + 1
      [] kind = "by_surface" -> ((e.i_surf - 1) % NNodes) + 1
      [] OTHER               -> 1

AllColumns ==
    [k \in 1..(NSurf * NCols) |->
        [i_surf |-> ((k - 1) \div NCols) + 1, i_n |-> ((k - 1) % NCols) + 1]]

NodeHas(kind, node, e) == NodeOf(kind, e) = node

struct2aero_mapping(kind) ==
    [node \in 1..NNodes |-> SelectSeq(AllColumns, LAMBDA e : NodeHas(kind, node, e))]

(***************************************************************************)
(* Force mapping (sharpy.aero.utils.mapping, StructTimeStepInfo)           *)
(***************************************************************************)
\* The share of grid point (e.i_surf, i_m, e.i_n) in the load of a node, in
\* the node's B frame: the force and moment rotated by cbg, plus the moment of
\* the force about the node (at `origin` in the inertial frame).
PointLoad(force, zeta, cbg, origin, e, i_m) ==
    LET f == force[e.i_surf][i_m][e.i_n]
        chi_g == VSub(zeta[e.i_surf][i_m][e.i_n], origin)
    IN  MatVec(cbg, First3(f))
          \o VAdd(MatVec(cbg, Last3(f)), MatVec(cbg, cross3(chi_g, First3(f))))

RECURSIVE ColumnLoad(_, _, _, _, _, _)
ColumnLoad(force, zeta, cbg, origin, e, i_m) ==
    IF i_m = 0 THEN Zero(6)
    ELSE VAdd(ColumnLoad(force, zeta, cbg, origin, e, i_m - 1),
              PointLoad(force, zeta, cbg, origin, e, i_m))

RECURSIVE NodeLoad(_, _, _, _, _, _)
NodeLoad(force, zeta, cbg, origin, entries, k) ==
    IF k = 0 THEN Zero(6)
    ELSE VAdd(NodeLoad(force, zeta, cbg, origin, entries, k - 1),
              ColumnLoad(force, zeta, cbg, origin, entries[k],
                         Len(force[entries[k].i_surf])))

\* mapping.aero2struct_force_mapping: the nodal loads in the B frame, one
\* 6-vector per structural node, each the sum over the grid points attached
\* to the node.
aero2struct_force_mapping(force, s2a, zeta, pos_def, psi_def, cag_) ==
    [node \in 1..NNodes |->
        LET cab == crv2rotation(psi_def[node])
            cbg == MatMul(Transpose(cab), cag_)
            origin == MatVec(Transpose(cag_), pos_def[node])
        IN  NodeLoad(force, zeta, cbg, origin, s2a[node], Len(s2a[node]))]

\* StructTimeStepInfo.nodal_b_for_2_a_for: each nodal load rotated from the
\* node's B frame to the body frame A.
nodal_b_for_2_a_for(nodal, struct_tstep) ==
    [node \in DOMAIN nodal |->
        MatVec(crv2rotation(struct_tstep.psi[node]), First3(nodal[node]))
          \o MatVec(crv2rotation(struct_tstep.psi[node]), Last3(nodal[node]))]

(***************************************************************************)
(* AeroForcesCalculator                                                    *)
(***************************************************************************)
MaxCalls == 2      \* calculate_forces calls in one behaviour

\* The attributes a snapshot may lack.
OptionalAttrs ==
    {"dynamic_forces", "aero_steady_forces_beam_dof", "aero_unsteady_forces_beam_dof"}

\* The four totals calculate_forces sets on a snapshot (lines 139-151).
TotalAttrs ==
    {"total_steady_body_forces", "total_unsteady_body_forces",
     "total_steady_inertial_forces", "total_unsteady_inertial_forces"}

\* AeroForcesCalculator.map_forces_beam_dof(ts, force)
map_forces_beam_dof(aero_tstep, struct_tstep, s2a, force) ==
    aero2struct_force_mapping(force, s2a, aero_tstep.zeta,
                              struct_tstep.pos, struct_tstep.psi, cag(struct_tstep))

\* The aerodynamic snapshot of timestep t as the solver left it: the grid,
\* the circulation, the external velocity, the forces, the per-surface
\* aggregates still zero, and of the optional attributes those in `has`.
AeroSnapshot(seed, t, struct_tstep, s2a, has) ==
    LET base == [zeta |-> ZetaField,
                 gamma |-> [s \in 1..NSurf |-> [m \in 1..NRows |-> seed + t + s + m]],
                 u_ext |-> [s \in 1..NSurf |-> [m \in 1..NRows |-> <<seed + t, 0, s>>]],
                 forces |-> ForceField(seed + t),
                 inertial_steady_forces   |-> [i \in 1..NSurf |-> Zero(6)],
                 inertial_unsteady_forces |-> [i \in 1..NSurf |-> Zero(6)],
                 body_steady_forces       |-> [i \in 1..NSurf |-> Zero(6)],
                 body_unsteady_forces     |-> [i \in 1..NSurf |-> Zero(6)]]
        dyn == DynamicForceField(seed + t)
        a1 == IF "dynamic_forces" \in has
              THEN SetAttr(base, "dynamic_forces", dyn) ELSE base
        a2 == IF "aero_steady_forces_beam_dof" \in has
              THEN SetAttr(a1, "aero_steady_forces_beam_dof",
                           map_forces_beam_dof(base, struct_tstep, s2a, base.forces))
              ELSE a1
    IN  IF "aero_unsteady_forces_beam_dof" \in has
        THEN SetAttr(a2, "aero_unsteady_forces_beam_dof",
                     map_forces_beam_dof(base, struct_tstep, s2a, dyn))
        ELSE a2

\* Lines 112-115: the running total over the grid points of one surface,
\* i_m outermost, of the force part [0:3] of each point.
RECURSIVE RowSum(_, _)
RowSum(row, i_n) ==
    IF i_n = 0 THEN Zero(3) ELSE VAdd(RowSum(row, i_n - 1), First3(row[i_n]))

RECURSIVE GridSum(_, _, _)
GridSum(grid, i_m, n_cols) ==
    IF i_m = 0 THEN Zero(3)
    ELSE VAdd(GridSum(grid, i_m - 1, n_cols), RowSum(grid[i_m], n_cols))

\* An assignment to row[0:3] of a 6-wide row.
SetFirst3(row, v) == <<v[1], v[2], v[3], row[4], row[5], row[6]>>

\* Lines 109-119: the aggregates of surface i_surf.
surface_forces_accumulate(a, rot, i_surf) ==
    LET n_rows == Len(a.forces[i_surf])
        n_cols == Len(a.forces[i_surf][1])
        total_steady_force   == GridSum(a.forces[i_surf], n_rows, n_cols)
        total_unsteady_force == GridSum(a.dynamic_forces[i_surf], n_rows, n_cols)
    IN  [a EXCEPT
           !.inertial_steady_forces[i_surf]   = VAdd(@, total_steady_force \o <<0, 0, 0>>),
           !.inertial_unsteady_forces[i_surf] = VAdd(@, total_unsteady_force \o <<0, 0, 0>>),
           !.body_steady_forces[i_surf]   =
               VAdd(@, MatVec(Transpose(rot), total_steady_force) \o <<0, 0, 0>>),
           !.body_unsteady_forces[i_surf] =
               VAdd(@, MatVec(Transpose(rot), total_unsteady_force) \o <<0, 0, 0>>)]

surface_forces_running_total(a, rot, i_surf) ==
    LET n_rows == Len(a.forces[i_surf])
        n_cols == Len(a.forces[i_surf][1])
        carried_steady   == IF i_surf = 1 THEN <<0, 0, 0>>
                            ELSE First3(a.inertial_steady_forces[i_surf - 1])
        carried_unsteady == IF i_surf = 1 THEN <<0, 0, 0>>
                            ELSE First3(a.inertial_unsteady_forces[i_surf - 1])
        total_steady_force   == VAdd(carried_steady, GridSum(a.forces[i_surf], n_rows, n_cols))
        total_unsteady_force == VAdd(carried_unsteady,
                                     GridSum(a.dynamic_forces[i_surf], n_rows, n_cols))
    IN  [a EXCEPT
           !.inertial_steady_forces[i_surf]   = SetFirst3(@, total_steady_force),
           !.inertial_unsteady_forces[i_surf] = SetFirst3(@, total_unsteady_force),
           !.body_steady_forces[i_surf]   = SetFirst3(@, MatVec(Transpose(rot), total_steady_force)),
           !.body_unsteady_forces[i_surf] = SetFirst3(@, MatVec(Transpose(rot), total_unsteady_force))]

surface_forces(a, rot, i_surf) ==
    LET n_rows == Len(a.forces[i_surf])
        n_cols == Len(a.forces[i_surf][1])
        total_steady_force   == GridSum(a.forces[i_surf], n_rows, n_cols)
        total_unsteady_force == GridSum(a.dynamic_forces[i_surf], n_rows, n_cols)
    IN  [a EXCEPT
           !.inertial_steady_forces[i_surf]   = SetFirst3(@, total_steady_force),
           !.inertial_unsteady_forces[i_surf] = SetFirst3(@, total_unsteady_force),
           !.body_steady_forces[i_surf]   = SetFirst3(@, MatVec(Transpose(rot), total_steady_force)),
           !.body_unsteady_forces[i_surf] = SetFirst3(@, MatVec(Transpose(rot), total_unsteady_force))]

\* Lines 108-119: the loop over the surfaces.
RECURSIVE all_surface_forces(_, _, _)
all_surface_forces(a, rot, i_surf) ==
    IF i_surf = 0 THEN a
    ELSE surface_forces(all_surface_forces(a, rot, i_surf - 1), rot, i_surf)

\* Lines 122-125 and 127-130: the beam-dof forces are read from the snapshot;
\* when the attribute is missing they are mapped from `force` into a local
\* variable.  `snap` is the snapshot afterwards, `called` tells whether
\* map_forces_beam_dof was called.
beam_dof_no_recover(a, name, struct_tstep, s2a, force) ==
    IF HasAttr(a, name)
    THEN [snap |-> a, value |-> a[name], called |-> FALSE, err |-> "none"]
    ELSE [snap |-> a, value |-> <<>>, called |-> FALSE, err |-> "AttributeError"]

beam_dof_cached(a, name, struct_tstep, s2a, force) ==
    IF HasAttr(a, name)
    THEN [snap |-> a, value |-> a[name], called |-> FALSE, err |-> "none"]
    ELSE [snap |-> SetAttr(a, name, map_forces_beam_dof(a, struct_tstep, s2a, force)),
          value |-> map_forces_beam_dof(a, struct_tstep, s2a, force),
          called |-> TRUE, err |-> "none"]

beam_dof(a, name, struct_tstep, s2a, force) ==
    IF HasAttr(a, name)
    THEN [snap |-> a, value |-> a[name], called |-> FALSE, err |-> "none"]
    ELSE [snap |-> a, value |-> map_forces_beam_dof(a, struct_tstep, s2a, force),
          called |-> TRUE, err |-> "none"]

\* np.sum(forces_a, axis=0): the sum of the nodal loads over the nodes.
RECURSIVE SumNodes(_, _)
SumNodes(nodal, k) ==
    IF k = 0 THEN Zero(6) ELSE VAdd(SumNodes(nodal, k - 1), nodal[k])

sum_axis0_but_last(nodal) == SumNodes(nodal, Len(nodal) - 1)

sum_axis0(nodal) == SumNodes(nodal, Len(nodal))

\* np.block([[rot, 0], [0, rot]]).dot(v)
block_rot_dot(rot, v) == MatVec(rot, First3(v)) \o MatVec(rot, Last3(v))

\* Lines 132-151: the four totals, from the beam-dof forces.
total_forces(a, struct_tstep, rot, steady_forces_b, unsteady_forces_b) ==
    LET steady_forces_a   == nodal_b_for_2_a_for(steady_forces_b, struct_tstep)
        unsteady_forces_a == nodal_b_for_2_a_for(unsteady_forces_b, struct_tstep)
        a1 == SetAttr(a, "total_steady_body_forces", sum_axis0(steady_forces_a))
        a2 == SetAttr(a1, "total_unsteady_body_forces", sum_axis0(unsteady_forces_a))
        a3 == SetAttr(a2, "total_steady_inertial_forces",
                      block_rot_dot(rot, a2.total_steady_body_forces))
    IN  SetAttr(a3, "total_unsteady_inertial_forces",
                block_rot_dot(rot, a3.total_unsteady_body_forces))

MapCall(t, field) == [call |-> "map_forces_beam_dof", ts |-> t, force |-> field]

\* timestep_info[self.ts]
timestep_info_first(hist, t) == hist[1]

timestep_info(hist, t) == hist[t + 1]

\* Lines 102-151: one pass of the loop of calculate_forces, for self.ts = t.
\* c holds the history, the calls made so far, the exception and self.ts.
calculate_forces_ts(c, struct_hist, s2a, t) ==
    IF ~HasIndex(struct_hist, t) \/ ~HasIndex(c.aero, t)
    THEN [c EXCEPT !.err = "IndexError", !.ts = t]
    ELSE
    LET struct_tstep == timestep_info(struct_hist, t)
        rot == quat2rotation(struct_tstep.quat)
        a0 == timestep_info(c.aero, t)
    IN  IF ~HasAttr(a0, "forces") \/ ~HasAttr(a0, "dynamic_forces")
        THEN [c EXCEPT !.err = "AttributeError", !.ts = t]
        ELSE
        LET a1 == all_surface_forces(a0, rot, Len(a0.forces))
            sb == beam_dof(a1, "aero_steady_forces_beam_dof", struct_tstep, s2a, a1.forces)
            ub == beam_dof(sb.snap, "aero_unsteady_forces_beam_dof", struct_tstep, s2a,
                           a1.dynamic_forces)
            calls == (IF sb.called THEN <<MapCall(t, "forces")>> ELSE <<>>)
                     \o (IF sb.err = "none" /\ ub.called
                         THEN <<MapCall(t, "dynamic_forces")>> ELSE <<>>)
        IN  IF sb.err # "none"
            THEN [c EXCEPT !.aero[t + 1] = sb.snap, !.err = sb.err, !.ts = t,
                           !.trace = @ \o calls]
            ELSE IF ub.err # "none"
            THEN [c EXCEPT !.aero[t + 1] = ub.snap, !.err = ub.err, !.ts = t,
                           !.trace = @ \o calls]
            ELSE [c EXCEPT !.aero[t + 1] =
                               total_forces(ub.snap, struct_tstep, rot, sb.value, ub.value),
                           !.ts = t,
                           !.trace = @ \o calls]

\* AeroForcesCalculator.calculate_forces: for self.ts in range(self.ts_max).
RECURSIVE calculate_forces_from(_, _, _, _, _)
calculate_forces_from(c, struct_hist, s2a, t, ts_max) ==
    IF t >= ts_max \/ c.err # "none" THEN c
    ELSE calculate_forces_from(calculate_forces_ts(c, struct_hist, s2a, t),
                               struct_hist, s2a, t + 1, ts_max)

calculate_forces(c, struct_hist, s2a, ts_max) ==
    calculate_forces_from(c, struct_hist, s2a, 0, ts_max)

\* AeroForcesCalculator.initialise, lines 77-81: ts_max.
initial_ts_max(unsteady, data_ts, struct_hist) ==
    IF unsteady THEN data_ts + 1 ELSE Len(struct_hist)

(***************************************************************************)
(* AeroForcesCalculator: the state machine                                 *)
(***************************************************************************)
\* What the post-processor's model leaves alone: the StaticUvlm object.
solver_vars == <<sinit, settings, nonlifting_body, clock, coef, lin>>

\* The optional attributes of a new snapshot: those the solver in use
\* stores (presharpy.stores), or all of them.
SnapshotAttrs(stores) == {stores, OptionalAttrs}

InitForces ==
    /\ sinit = FALSE
    /\ settings = "None"
    /\ nonlifting_body = <<>>
    /\ clock = 0
    /\ coef = "None"
    /\ lin = "None"
    /\ output = <<>>
    /\ ts = 0
    /\ \E kind \in MappingKinds, unsteady \in BOOLEAN, seed \in 0..MaxSeed,
          stores \in SUBSET OptionalAttrs :
          /\ presharpy = [struct2aero_mapping |-> struct2aero_mapping(kind),
                          unsteady |-> unsteady, seed |-> seed, stores |-> stores]
          /\ structure = <<StructSnapshot(0)>>
          /\ \E has \in SnapshotAttrs(stores) :
                aero = <<AeroSnapshot(seed, 0, StructSnapshot(0),
                                      struct2aero_mapping(kind), has)>>
    \* AeroForcesCalculator.__init__
    /\ afc = [initialised |-> FALSE, ts_max |-> 0, ts |-> 0, n_calls |-> 0]
    /\ trace = <<>>
    /\ last = "__init__"
    /\ err = "none"

\* The coupled solver accepts one more timestep: an aerodynamic and a
\* structural snapshot are appended and data.ts advances to them.
SolveTimestep ==
    /\ Len(aero) < MaxTs
    /\ LET t == Len(aero)
       IN  /\ structure' = Append(structure, StructSnapshot(t))
           /\ \E has \in SnapshotAttrs(presharpy.stores) :
                 aero' = Append(aero, AeroSnapshot(presharpy.seed, t, StructSnapshot(t),
                                                   presharpy.struct2aero_mapping, has))
           /\ ts' = t
    /\ trace' = <<>>
    /\ last' = "solve_timestep"
    /\ err' = "none"
    /\ output' = <<>>
    /\ UNCHANGED <<presharpy, afc>>
    /\ UNCHANGED solver_vars

\* AeroForcesCalculator.initialise
AfcInitialise ==
    /\ ~afc.initialised
    /\ afc' = [afc EXCEPT !.initialised = TRUE,
                          !.ts_max = initial_ts_max(presharpy.unsteady, ts, structure)]
    /\ trace' = <<>>
    /\ last' = "initialise"
    /\ err' = "none"
    /\ output' = <<>>
    /\ UNCHANGED <<presharpy, aero, structure, ts>>
    /\ UNCHANGED solver_vars

\* AeroForcesCalculator.calculate_forces
CalculateForces ==
    /\ afc.n_calls < MaxCalls
    /\ LET c == calculate_forces([aero |-> aero, trace |-> <<>>, err |-> "none", ts |-> afc.ts],
                                 structure, presharpy.struct2aero_mapping, afc.ts_max)
       IN  /\ aero' = c.aero
           /\ trace' = c.trace
           /\ err' = c.err
           /\ afc' = [afc EXCEPT !.ts = c.ts, !.n_calls = @ + 1]
    /\ last' = "calculate_forces"
    /\ output' = <<>>
    /\ UNCHANGED <<presharpy, structure, ts>>
    /\ UNCHANGED solver_vars

NextForces == SolveTimestep \/ AfcInitialise \/ CalculateForces

SpecForces == InitForces /\ [][NextForces]_vars

(***************************************************************************)
(* AeroForcesCalculator: properties                                        *)
(***************************************************************************)
\* The sum of the force part of every grid point of every surface of a field.
RECURSIVE TotalGridForce(_, _)
TotalGridForce(field, i_surf) ==
    IF i_surf = 0 THEN Zero(3)
    ELSE VAdd(TotalGridForce(field, i_surf - 1),
              GridSum(field[i_surf], Len(field[i_surf]), Len(field[i_surf][1])))

\* The timestep indices calculate_forces goes through.
Processed == 0..(afc.ts_max - 1)

TotalsSet(a) == TotalAttrs \subseteq DOMAIN a

\* C7: for every snapshot whose totals were computed through
\* map_forces_beam_dof (the snapshot holds no beam-dof forces of its own), the
\* force part of the total over the structural nodes equals the sum of the
\* grid-point forces over all surfaces: rotated into the body frame for
\* total_*_body_forces, and as it is for total_*_inertial_forces.
C7_TotalForceConserved ==
    \A k \in 1..Len(aero) :
        LET a == aero[k]
            c_ag == cag(structure[k])
        IN  TotalsSet(a)
              => /\ ~HasAttr(a, "aero_steady_forces_beam_dof")
                    => /\ First3(a.total_steady_body_forces)
                            = MatVec(c_ag, TotalGridForce(a.forces, Len(a.forces)))
                       /\ First3(a.total_steady_inertial_forces)
                            = TotalGridForce(a.forces, Len(a.forces))
                 /\ ~HasAttr(a, "aero_unsteady_forces_beam_dof")
                    => /\ First3(a.total_unsteady_body_forces)
                            = MatVec(c_ag, TotalGridForce(a.dynamic_forces, Len(a.dynamic_forces)))
                       /\ First3(a.total_unsteady_inertial_forces)
                            = TotalGridForce(a.dynamic_forces, Len(a.dynamic_forces))

\* Totals have been computed through the mapping for a snapshot whose grid
\* points are spread over more than one structural node, in a body frame that
\* is turned against the inertial frame, and the total force is not zero.
C7_Witness ==
    /\ last = "calculate_forces"
    /\ \A node \in 1..NNodes : Len(presharpy.struct2aero_mapping[node]) > 0
    /\ \E k \in 1..Len(aero) :
          /\ TotalsSet(aero[k])
          /\ ~HasAttr(aero[k], "aero_steady_forces_beam_dof")
          /\ First3(aero[k].total_steady_body_forces) # <<0, 0, 0>>
          /\ First3(aero[k].total_steady_body_forces)
               # First3(aero[k].total_steady_inertial_forces)

\* C9 (as claimed): calculate_forces ends without an exception and with the
\* totals set on every snapshot it goes through, whichever of the beam-dof
\* fields and dynamic_forces the snapshots lack.
C9_MissingDataRecovered ==
    last = "calculate_forces"
        => /\ err = "none"
           /\ \A t \in Processed : TotalsSet(aero[t + 1])

\* C9 (amended): when every snapshot it goes through holds dynamic_forces,
\* calculate_forces ends without an exception and with the totals set on each,
\* whichever beam-dof fields are missing; otherwise it ends with
\* AttributeError at the first snapshot lacking dynamic_forces, the totals set
\* on the snapshots before that one only.
C9_MissingBeamDofRecovered ==
    last = "calculate_forces"
        => /\ (\A t \in Processed : HasAttr(aero[t + 1], "dynamic_forces"))
                 => /\ err = "none"
                    /\ \A t \in Processed : TotalsSet(aero[t + 1])
           /\ \A t \in Processed :
                 (/\ ~HasAttr(aero[t + 1], "dynamic_forces")
                  /\ \A u \in 0..(t - 1) : HasAttr(aero[u + 1], "dynamic_forces"))
                 => /\ err = "AttributeError"
                    /\ afc.ts = t
                    /\ \A u \in 0..(t - 1) : TotalsSet(aero[u + 1])

\* calculate_forces has completed over two snapshots of which one lacks both
\* beam-dof fields.
C9_Witness ==
    /\ last = "calculate_forces"
    /\ err = "none"
    /\ afc.ts_max >= 2
    /\ \A t \in Processed : TotalsSet(aero[t + 1])
    /\ \E t \in Processed :
          /\ ~HasAttr(aero[t + 1], "aero_steady_forces_beam_dof")
          /\ ~HasAttr(aero[t + 1], "aero_unsteady_forces_beam_dof")

MapCalled(t, field) == \E k \in 1..Len(trace) : trace[k] = MapCall(t, field)

\* C10 (as claimed): after a calculate_forces that ended without an exception
\* every snapshot it went through holds its beam-dof forces, and a second
\* calculate_forces calls map_forces_beam_dof no more.
C10_RecoveredBeamDofCached ==
    (last = "calculate_forces" /\ err = "none")
        => /\ \A t \in Processed :
                 /\ HasAttr(aero[t + 1], "aero_steady_forces_beam_dof")
                 /\ HasAttr(aero[t + 1], "aero_unsteady_forces_beam_dof")
           /\ afc.n_calls >= 2 => trace = <<>>

\* C10 (amended): calculate_forces stores no beam-dof forces: a snapshot
\* holds a beam-dof field after the call exactly if it held it before, and the
\* call maps the forces (the dynamic forces) of every snapshot it goes through
\* that lacks the steady (unsteady) field, on the first call and on every
\* later one.
C10_BeamDofRecomputedEachCall ==
    [][last' = "calculate_forces"
         => /\ \A k \in 1..Len(aero) :
                  \A name \in {"aero_steady_forces_beam_dof", "aero_unsteady_forces_beam_dof"} :
                      HasAttr(aero'[k], name) <=> HasAttr(aero[k], name)
            /\ \A t \in Processed :
                  (err' = "none" \/ t < afc'.ts)
                  => /\ MapCalled(t, "forces")'
                          <=> ~HasAttr(aero[t + 1], "aero_steady_forces_beam_dof")
                     /\ MapCalled(t, "dynamic_forces")'
                          <=> ~HasAttr(aero[t + 1], "aero_unsteady_forces_beam_dof")]_vars

\* A second calculate_forces over the same snapshots has mapped the forces
\* again.
C10_Witness ==
    /\ last = "calculate_forces"
    /\ err = "none"
    /\ afc.n_calls >= 2
    /\ MapCalled(0, "forces")
    /\ TotalsSet(aero[1])

\* The fields of a snapshot the solvers compute.
ComputedFields == {"zeta", "gamma", "u_ext", "forces", "dynamic_forces"}

\* C16: calculate_forces changes no computed field (zeta, gamma, u_ext,
\* forces, dynamic_forces) of any snapshot and adds or removes no snapshot; a
\* snapshot that already holds its totals is left exactly as it was, every
\* per-surface and total aggregate included.
C16_RecomputingChangesNothing ==
    [][last' = "calculate_forces"
         => /\ Len(aero') = Len(aero)
            /\ \A k \in 1..Len(aero) :
                  /\ \A f \in ComputedFields :
                        /\ HasAttr(aero'[k], f) <=> HasAttr(aero[k], f)
                        /\ HasAttr(aero[k], f) => aero'[k][f] = aero[k][f]
                  /\ TotalsSet(aero[k]) => aero'[k] = aero[k]]_vars

\* calculate_forces has run a second time over a snapshot whose aggregates
\* are not zero.
C16_Witness ==
    /\ last = "calculate_forces"
    /\ err = "none"
    /\ afc.n_calls >= 2
    /\ afc.ts_max >= 1
    /\ TotalsSet(aero[1])
    /\ First3(aero[1].inertial_steady_forces[1]) # <<0, 0, 0>>
    /\ aero[1].total_unsteady_body_forces # <<0, 0, 0, 0, 0, 0>>

\* C19: the aggregates of the snapshot at index ts are related by the
\* rotation R of the structural snapshot at the same index: each inertial
\* total is blockdiag(R, R) applied to the body total, and the force part of
\* each per-surface body row is R transposed applied to that of the
\* matching inertial row.
C19_FramesRelatedByRotationAtSameIndex ==
    \A k \in 1..Len(aero) :
        LET a == aero[k]
            R == quat2rotation(structure[k].quat)
        IN  TotalsSet(a)
              => /\ a.total_steady_inertial_forces
                      = MatVec(R, First3(a.total_steady_body_forces))
                          \o MatVec(R, Last3(a.total_steady_body_forces))
                 /\ a.total_unsteady_inertial_forces
                      = MatVec(R, First3(a.total_unsteady_body_forces))
                          \o MatVec(R, Last3(a.total_unsteady_body_forces))
                 /\ \A i_surf \in 1..Len(a.forces) :
                       /\ First3(a.body_steady_forces[i_surf])
                            = MatVec(Transpose(R), First3(a.inertial_steady_forces[i_surf]))
                       /\ First3(a.body_unsteady_forces[i_surf])
                            = MatVec(Transpose(R), First3(a.inertial_unsteady_forces[i_surf]))

\* The totals of a second snapshot have been set, under a rotation other
\* than that of the first snapshot, and differ between the two frames.
C19_Witness ==
    /\ last = "calculate_forces"
    /\ Len(aero) >= 2
    /\ TotalsSet(aero[2])
    /\ structure[2].quat # structure[1].quat
    /\ aero[2].total_steady_inertial_forces # aero[2].total_steady_body_forces
    /\ First3(aero[2].body_steady_forces[1]) # First3(aero[2].inertial_steady_forces[1])

\* The sum of the force parts of the grid points `points` of one surface.
RECURSIVE SumOverPoints(_, _)
SumOverPoints(grid, points) ==
    IF points = {} THEN <<0, 0, 0>>
    ELSE LET p == CHOOSE q \in points : TRUE
         IN  VAdd(First3(grid[p[1]][p[2]]), SumOverPoints(grid, points \ {p}))

GridPoints(grid) == (DOMAIN grid) \X (DOMAIN grid[1])

\* C20: on every snapshot calculate_forces has gone through, the force part
\* of row i_surf of inertial_steady_forces is the sum of the forces of the
\* grid points of surface i_surf alone, and that of inertial_unsteady_forces
\* the same sum over dynamic_forces.
C20_SurfaceRowsAreSurfaceSums ==
    \A k \in 1..Len(aero) :
        LET a == aero[k]
        IN  TotalsSet(a)
              => \A i_surf \in 1..Len(a.forces) :
                    /\ First3(a.inertial_steady_forces[i_surf])
                         = SumOverPoints(a.forces[i_surf], GridPoints(a.forces[i_surf]))
                    /\ First3(a.inertial_unsteady_forces[i_surf])
                         = SumOverPoints(a.dynamic_forces[i_surf],
                                         GridPoints(a.dynamic_forces[i_surf]))

\* The rows of two surfaces have been set to sums that are neither zero nor
\* equal.
C20_Witness ==
    /\ last = "calculate_forces"
    /\ \E k \in 1..Len(aero) :
          /\ TotalsSet(aero[k])
          /\ Len(aero[k].forces) >= 2
          /\ First3(aero[k].inertial_steady_forces[1]) # <<0, 0, 0>>
          /\ First3(aero[k].inertial_steady_forces[2]) # <<0, 0, 0>>
          /\ First3(aero[k].inertial_steady_forces[1])
               # First3(aero[k].inertial_steady_forces[2])

(***************************************************************************)
(* AeroForcesCalculator.calculate_coefficients                             *)
(*                                                                         *)
(* A float is modelled as an exact rational <<n, d>> in lowest terms with  *)
(* d > 0; a division by zero gives inf, written <<1, 0>>, or nan, written   *)
(* <<0, 0>>.  Rounding is not modelled.                                    *)
(***************************************************************************)
Abs(n) == IF n < 0 THEN -n ELSE n

RECURSIVE GCD(_, _)
GCD(a, b) == IF b = 0 THEN a ELSE GCD(b, a % b)

\* n/d in lowest terms, d # 0.
Rat(n, d) ==
    LET g == GCD(Abs(n), Abs(d))
        sgn == IF d < 0 THEN -1 ELSE 1
    IN  <<(sgn * n) \div g, (sgn * d) \div g>>

inf == <<1, 0>>

nan == <<0, 0>>

IsFinite(x) == x[2] # 0

\* x * y
RMul(x, y) ==
    IF ~IsFinite(x) \/ ~IsFinite(y) THEN nan ELSE Rat(x[1] * y[1], x[2] * y[2])

\* x / y as numpy divides floats: a division by zero gives inf, or nan for 0/0.
RDiv(x, y) ==
    IF ~IsFinite(x) \/ ~IsFinite(y) THEN nan
    ELSE IF y[1] = 0 THEN (IF x[1] = 0 THEN nan ELSE inf)
    ELSE Rat(x[1] * y[2], x[2] * y[1])

\* The values drawn for the reference quantities q_ref, S_ref, b_ref, c_ref.
RefValues == {<<-3, 1>>, <<0, 1>>, <<1, 2>>, <<2, 1>>}

\* The values drawn for the coefficients.
CoefValues == {<<-2, 1>>, <<0, 1>>, <<1, 3>>}

\* AeroForcesCalculator.calculate_coefficients(fx, fy, fz, mx, my, mz)
calculate_coefficients_q_only(st, f) ==
    LET qS == st.q_ref
    IN  <<RDiv(f[1], qS), RDiv(f[2], qS), RDiv(f[3], qS),
          RDiv(RDiv(f[4], qS), st.b_ref),
          RDiv(RDiv(f[5], qS), st.c_ref),
          RDiv(RDiv(f[6], qS), st.b_ref)>>

calculate_coefficients(st, f) ==
    LET qS == RMul(st.q_ref, st.S_ref)
    IN  <<RDiv(f[1], qS), RDiv(f[2], qS), RDiv(f[3], qS),
          RDiv(RDiv(f[4], qS), st.b_ref),
          RDiv(RDiv(f[5], qS), st.c_ref),
          RDiv(RDiv(f[6], qS), st.b_ref)>>

\* The forces and moments that have the coefficients C under the reference
\* quantities st: fx = q_ref*S_ref*Cfx, ..., mx = q_ref*S_ref*b_ref*Cmx, ...
Dimensional(st, C) ==
    LET qS == RMul(st.q_ref, st.S_ref)
    IN  <<RMul(qS, C[1]), RMul(qS, C[2]), RMul(qS, C[3]),
          RMul(RMul(qS, st.b_ref), C[4]),
          RMul(RMul(qS, st.c_ref), C[5]),
          RMul(RMul(qS, st.b_ref), C[6])>>

InitCoef ==
    /\ sinit = FALSE
    /\ settings = "None"
    /\ ts = 0
    /\ aero = <<>>
    /\ nonlifting_body = <<>>
    /\ structure = <<>>
    /\ trace = <<>>
    /\ last = "__init__"
    /\ clock = 0
    /\ err = "none"
    /\ presharpy = "None"
    /\ output = <<>>
    /\ lin = "None"
    /\ \E q \in RefValues, S \in RefValues, b \in RefValues, c \in RefValues :
          afc = [settings |-> [q_ref |-> q, S_ref |-> S, b_ref |-> b, c_ref |-> c]]
    /\ \E Cfx \in CoefValues, Cfy \in CoefValues, Cfz \in CoefValues, Cm \in CoefValues :
          coef = [C |-> <<Cfx, Cfy, Cfz, Cm, Cm, Cm>>, args |-> "None", result |-> "None"]

\* calculate_coefficients applied to the forces and moments that have the
\* coefficients coef.C.
CalculateCoefficients ==
    /\ coef.result = "None"
    /\ coef' = [coef EXCEPT !.args = Dimensional(afc.settings, coef.C),
                            !.result = calculate_coefficients(afc.settings,
                                                              Dimensional(afc.settings, coef.C))]
    /\ last' = "calculate_coefficients"
    /\ UNCHANGED <<sinit, settings, ts, aero, nonlifting_body, structure, trace, clock, err,
                   presharpy, afc, output, lin>>

NextCoef == CalculateCoefficients

SpecCoef == InitCoef /\ [][NextCoef]_vars

\* C8: for non-zero q_ref and S_ref, calculate_coefficients applied to
\* fx = q_ref*S_ref*Cfx, fy = q_ref*S_ref*Cfy, fz = q_ref*S_ref*Cfz returns
\* Cfx, Cfy and Cfz as its first three results.
C8_CoefficientsInvertDimensionalisation ==
    (/\ last = "calculate_coefficients"
     /\ afc.settings.q_ref[1] # 0
     /\ afc.settings.S_ref[1] # 0)
        => /\ coef.result[1] = coef.C[1]
           /\ coef.result[2] = coef.C[2]
           /\ coef.result[3] = coef.C[3]

\* Coefficients that are neither zero nor equal to the forces have been
\* recovered under a reference pressure and area that are not 1.
C8_Witness ==
    /\ last = "calculate_coefficients"
    /\ afc.settings.q_ref = <<-3, 1>>
    /\ afc.settings.S_ref = <<1, 2>>
    /\ coef.C[1] = <<1, 3>>
    /\ coef.args[1] = <<-1, 2>>
    /\ coef.result[1] = <<1, 3>>

(***************************************************************************)
(* AeroForcesCalculator: screen and text-file output                       *)
(*                                                                         *)
(* A printed number is modelled by its digits: sign, mantissa and decimal  *)
(* exponent as the conversion writes them.  A formatted line is the        *)
(* sequence of its cells, each the conversion of one argument.             *)
(***************************************************************************)
RECURSIVE Pow10(_)
Pow10(k) == IF k = 0 THEN 1 ELSE 10 * Pow10(k - 1)

\* The positive rational n/d scaled into [1, 10): <<n', d', e>> with
\* n/d = (n'/d') * 10^e.
RECURSIVE Normalise10(_, _, _)
Normalise10(n, d, e) ==
    IF n >= 10 * d THEN Normalise10(n, 10 * d, e + 1)
    ELSE IF n < d THEN Normalise10(10 * n, d, e - 1)
    ELSE <<n, d, e>>

\* n/d rounded to the nearest integer, ties to even.
RoundDiv(n, d) ==
    LET q == n \div d
        r == n % d
    IN  IF 2 * r > d \/ (2 * r = d /\ q % 2 = 1) THEN q + 1 ELSE q

\* The 'e' conversion with `digits` decimals ('{: 8.3e}', '%10e') of the
\* float x: sign, the digits of the mantissa d.ddd as one integer, and the
\* exponent.
Sci(x, digits) ==
    IF ~IsFinite(x)
    THEN [kind |-> IF x = inf THEN "inf" ELSE "nan", sign |-> 0, mantissa |-> 0, exp |-> 0]
    ELSE IF x[1] = 0
    THEN [kind |-> "e", sign |-> 0, mantissa |-> 0, exp |-> 0]
    ELSE
    LET nz == Normalise10(Abs(x[1]), x[2], 0)
        m == RoundDiv(nz[1] * Pow10(digits), nz[2])
        carry == m = Pow10(digits + 1)
    IN  [kind |-> "e",
         sign |-> IF x[1] < 0 THEN -1 ELSE 1,
         mantissa |-> IF carry THEN Pow10(digits) ELSE m,
         exp |-> IF carry THEN nz[3] + 1 ELSE nz[3]]

\* The 'd' and '%i' conversions of an integer, the 's' conversion of a string.
IntCell(i) == [kind |-> "d", v |-> i]

StrCell(str) == [kind |-> "s", v |-> str]

\* The conversion `conv` applied to the argument v.
Convert(conv, v) ==
    CASE conv = "5d" -> IntCell(v)
      [] conv = "i" -> IntCell(v)
      [] conv = "8.3e" -> Sci(v, 3)
      [] conv = "10e" -> Sci(v, 6)
      [] OTHER -> StrCell(v)

\* str.format: a template is the sequence of its replacement fields
\* {index:conv}; the line holds, for each field, the conversion of the
\* argument the field names.
Format(template, args) ==
    [k \in 1..Len(template) |-> Convert(template[k][2], args[template[k][1] + 1])]

\* The templates of screen_output: the header (lines 176, 180), the row of
\* coefficients (line 192) and the row of forces and moments (line 195).
HeaderTemplate ==
    << <<0, "5s">>, <<1, "10s">>, <<2, "10s">>, <<3, "10s">>,
       <<4, "10s">>, <<5, "10s">>, <<6, "10s">> >>

CoefficientRowTemplate ==
    << <<0, "5d">>, <<1, "8.3e">>, <<2, "8.3e">>, <<3, "8.3e">>,
       <<4, "8.3e">>, <<5, "8.3e">>, <<6, "8.3e">> >>

ForceRowTemplate ==
    << <<0, "5d">>, <<1, "8.3e">>, <<2, "8.3e">>, <<3, "8.3e">>,
       <<1, "8.3e">>, <<2, "8.3e">>, <<3, "8.3e">> >>

\* An integer as a float.
Float(i) == <<i, 1>>

\* Lines 186-196: the line of timestep t.
screen_row(st, aero_tstep, t) ==
    LET f == VAdd(First3(aero_tstep.total_steady_inertial_forces),
                  First3(aero_tstep.total_unsteady_inertial_forces))
        m == VAdd(Last3(aero_tstep.total_steady_inertial_forces),
                  Last3(aero_tstep.total_unsteady_inertial_forces))
        args == <<Float(f[1]), Float(f[2]), Float(f[3]), Float(m[1]), Float(m[2]), Float(m[3])>>
    IN  IF st.coefficients
        THEN Format(CoefficientRowTemplate, <<t>> \o calculate_coefficients(st, args))
        ELSE Format(ForceRowTemplate, <<t>> \o args)

\* Lines 185-198: the loop over the timesteps from t on; c holds the lines
\* printed so far, the exception and self.ts.
RECURSIVE screen_rows(_, _, _, _, _)
screen_rows(c, st, aero_hist, t, ts_max) ==
    IF t >= ts_max \/ c.err # "none" THEN c
    ELSE IF ~HasIndex(aero_hist, t)
    THEN [c EXCEPT !.err = "IndexError", !.ts = t]
    ELSE IF ~({"total_steady_inertial_forces", "total_unsteady_inertial_forces"}
                \subseteq DOMAIN timestep_info(aero_hist, t))
    THEN [c EXCEPT !.err = "AttributeError", !.ts = t]
    ELSE screen_rows([c EXCEPT !.lines = Append(@, screen_row(st, timestep_info(aero_hist, t), t)),
                               !.ts = t],
                     st, aero_hist, t + 1, ts_max)

\* AeroForcesCalculator.screen_output
screen_output(o, aero_hist) ==
    IF ~o.initialised
    THEN [lines |-> <<>>, err |-> "TypeError", ts |-> o.ts]
    ELSE
    LET header ==
            IF o.settings.coefficients
            THEN Format(HeaderTemplate,
                        <<"tstep", "  Cfx_g", "  Cfy_g", "  Cfz_g", "  Cmx_g", "  Cmy_g", "  Cmz_g">>)
            ELSE Format(HeaderTemplate,
                        <<"tstep", "  fx_g", "  fy_g", "  fz_g", "  mx_g", "  my_g", "  mz_g">>)
    IN  screen_rows([lines |-> <<header>>, err |-> "none", ts |-> o.ts],
                    o.settings, aero_hist, 0, o.ts_max)

\* header += piece: a header is the sequence of its column names, `open`
\* telling whether the text ends without the separator ', ' - the next name
\* appended then runs into the last one.
HeaderAdd(h, names, ends_with_separator) ==
    [names |-> IF h.open /\ Len(h.names) > 0
               THEN SubSeq(h.names, 1, Len(h.names) - 1)
                      \o <<h.names[Len(h.names)] \o names[1]>>
                      \o SubSeq(names, 2, Len(names))
               ELSE h.names \o names,
     open |-> ~ends_with_separator]

EmptyHeader == [names |-> <<>>, open |-> FALSE]

\* Lines 232-239
forces_header ==
    HeaderAdd(HeaderAdd(HeaderAdd(HeaderAdd(HeaderAdd(HeaderAdd(HeaderAdd(EmptyHeader,
        <<"tstep">>, TRUE),
        <<"fx_steady_G", "fy_steady_G", "fz_steady_G">>, TRUE),
        <<"fx_unsteady_G", "fy_unsteady_G", "fz_unsteady_G">>, TRUE),
        <<"fx_steady_a", "fy_steady_a", "fz_steady_a">>, TRUE),
        <<"fx_unsteady_a", "fy_unsteady_a", "fz_unsteady_a">>, FALSE),
        <<"mx_total_G", "my_total_G", "mz_total_G">>, FALSE),
        <<"mx_total_a", "my_total_a", "mz_total_a">>, FALSE).names

\* Lines 248-253
moments_header ==
    HeaderAdd(HeaderAdd(HeaderAdd(HeaderAdd(HeaderAdd(EmptyHeader,
        <<"tstep">>, TRUE),
        <<"mx_steady_G", "my_steady_G", "mz_steady_G">>, TRUE),
        <<"mx_unsteady_G", "my_unsteady_G", "mz_unsteady_G">>, TRUE),
        <<"mx_steady_a", "my_steady_a", "mz_steady_a">>, TRUE),
        <<"mx_unsteady_a", "my_unsteady_a", "mz_unsteady_a">>, FALSE).names

\* The four totals file_output reads, in the order it writes them.
FileTotals ==
    <<"total_steady_inertial_forces", "total_unsteady_inertial_forces",
      "total_steady_body_forces", "total_unsteady_body_forces">>

\* np.zeros((1 + 3 + 3 + 3 + 3 + 3 + 3,)): one row of a matrix of line 203.
ZeroRow == [k \in 1..(1 + 3 + 3 + 3 + 3 + 3 + 3) |-> 0]

\* row[i:i+3] = v
SetSlice3(row, i, v) ==
    [k \in 1..Len(row) |-> IF k > i /\ k <= i + 3 THEN v[k - i] ELSE row[k]]

\* Lines 206-229: the row of timestep t of force_matrix (part = "forces",
\* the [:3] of each total) or of moment_matrix (part = "moments", the [3:]).
RECURSIVE file_row_from(_, _, _, _)
file_row_from(row, aero_tstep, part, k) ==
    IF k > Len(FileTotals) THEN row
    ELSE file_row_from(SetSlice3(row, 1 + 3 * (k - 1),
                                 IF part = "forces" THEN First3(aero_tstep[FileTotals[k]])
                                 ELSE Last3(aero_tstep[FileTotals[k]])),
                       aero_tstep, part, k + 1)

file_row(aero_tstep, part, t) ==
    file_row_from([ZeroRow EXCEPT ![1] = t], aero_tstep, part, 1)

\* np.savetxt with fmt = '%i' + ', %10e'*18: the cells of one row.
savetxt_row(row) ==
    [k \in 1..Len(row) |-> IF k = 1 THEN Convert("i", row[k]) ELSE Convert("10e", Float(row[k]))]

\* AeroForcesCalculator.file_output(filename): the two files written, each
\* with its name, the column names of its header and its rows.
file_output(o, aero_hist, filename) ==
    IF ~o.initialised
    THEN [files |-> <<>>, err |-> "TypeError", ts |-> o.ts]
    ELSE IF \E t \in 0..(o.ts_max - 1) : ~HasIndex(aero_hist, t)
    THEN [files |-> <<>>, err |-> "IndexError",
          ts |-> CHOOSE t \in 0..(o.ts_max - 1) :
                    ~HasIndex(aero_hist, t) /\ \A u \in 0..(t - 1) : HasIndex(aero_hist, u)]
    ELSE IF \E t \in 0..(o.ts_max - 1) : ~TotalsSet(timestep_info(aero_hist, t))
    THEN [files |-> <<>>, err |-> "AttributeError",
          ts |-> CHOOSE t \in 0..(o.ts_max - 1) :
                    /\ ~TotalsSet(timestep_info(aero_hist, t))
                    /\ \A u \in 0..(t - 1) : TotalsSet(timestep_info(aero_hist, u))]
    ELSE [files |->
            << [name |-> <<o.folder, "forces_", filename>>,
                header |-> forces_header,
                rows |-> [k \in 1..o.ts_max |->
                            savetxt_row(file_row(timestep_info(aero_hist, k - 1), "forces", k - 1))]],
               [name |-> <<o.folder, "moments_", filename>>,
                header |-> moments_header,
                rows |-> [k \in 1..o.ts_max |->
                            savetxt_row(file_row(timestep_info(aero_hist, k - 1), "moments", k - 1))]] >>,
          err |-> "none",
          ts |-> IF o.ts_max > 0 THEN o.ts_max - 1 ELSE o.ts]

(***************************************************************************)
(* AeroForcesCalculator with its output: the state machine                 *)
(***************************************************************************)
InitReport ==
    /\ sinit = FALSE
    /\ settings = "None"
    /\ nonlifting_body = <<>>
    /\ clock = 0
    /\ coef = "None"
    /\ lin = "None"
    /\ output = <<>>
    /\ ts = 0
    /\ \E unsteady \in BOOLEAN, seed \in 0..MaxSeed,
          stores \in {{"dynamic_forces"}, OptionalAttrs} :
          /\ presharpy = [struct2aero_mapping |-> struct2aero_mapping("by_column"),
                          unsteady |-> unsteady, seed |-> seed, stores |-> stores]
          /\ structure = <<StructSnapshot(0)>>
          /\ aero = <<AeroSnapshot(seed, 0, StructSnapshot(0),
                                   struct2aero_mapping("by_column"), stores)>>
    \* AeroForcesCalculator.__init__, with the settings initialise will read
    /\ \E unsteady \in BOOLEAN, coefficients \in BOOLEAN :
          afc = [initialised |-> FALSE, ts_max |-> 0, ts |-> 0, n_calls |-> 0,
                 folder |-> "output/forces/",
                 settings |-> [write_text_file |-> FALSE, text_file_name |-> "aeroforces.txt",
                               screen_output |-> TRUE,
                               unsteady |-> unsteady, coefficients |-> coefficients,
                               q_ref |-> <<2, 1>>, S_ref |-> <<1, 1>>,
                               b_ref |-> <<2, 1>>, c_ref |-> <<1, 1>>]]
    /\ trace = <<>>
    /\ last = "__init__"
    /\ err = "none"

\* AeroForcesCalculator.screen_output
ScreenOutput ==
    /\ last # "screen_output"
    /\ LET r == screen_output(afc, aero)
       IN  /\ output' = r.lines
           /\ err' = r.err
           /\ afc' = [afc EXCEPT !.ts = r.ts]
    /\ trace' = <<>>
    /\ last' = "screen_output"
    /\ UNCHANGED <<presharpy, aero, structure, ts>>
    /\ UNCHANGED solver_vars

\* AeroForcesCalculator.file_output(self.settings['text_file_name'])
FileOutput ==
    /\ last # "file_output"
    /\ LET r == file_output(afc, aero, afc.settings.text_file_name)
       IN  /\ output' = r.files
           /\ err' = r.err
           /\ afc' = [afc EXCEPT !.ts = r.ts]
    /\ trace' = <<>>
    /\ last' = "file_output"
    /\ UNCHANGED <<presharpy, aero, structure, ts>>
    /\ UNCHANGED solver_vars

NextReport == NextForces \/ ScreenOutput \/ FileOutput

SpecReport == InitReport /\ [][NextReport]_vars

(***************************************************************************)
(* AeroForcesCalculator output: properties                                 *)
(***************************************************************************)
\* The sum of the steady and the unsteady total of a snapshot, in the
\* inertial frame (G) and in the body frame (A).
TotalInertial(a) == VAdd(a.total_steady_inertial_forces, a.total_unsteady_inertial_forces)

TotalBody(a) == VAdd(a.total_steady_body_forces, a.total_unsteady_body_forces)

\* What the setting 'unsteady' asks screen_output to report.
ReportedTotal(a) ==
    IF afc.settings.unsteady THEN TotalInertial(a) ELSE a.total_steady_inertial_forces

Floats(v) == [k \in 1..Len(v) |-> Float(v[k])]

\* C14 (as claimed): each of the two files has one row per timestep index
\* 0..ts_max-1 in ascending order and as many columns as its header has
\* names; column 0 is the timestep index; the forces file holds the steady
\* and unsteady forces in the inertial frame, then in the body frame, and
\* under the names mx_total_G..mz_total_G and mx_total_a..mz_total_a the total
\* moments in the two frames.
C14_FileColumnsMatchHeader ==
    (last = "file_output" /\ err = "none")
        => /\ Len(output) = 2
           /\ \A f \in 1..Len(output) :
                 /\ Len(output[f].rows) = afc.ts_max
                 /\ \A k \in 1..Len(output[f].rows) :
                       /\ output[f].rows[k][1] = IntCell(k - 1)
                       /\ Len(output[f].rows[k]) = Len(output[f].header)
           /\ \A k \in 1..Len(output[1].rows) :
                 LET a == aero[k]
                     row == output[1].rows[k]
                     header == output[1].header
                 IN  /\ \A i \in 1..3 :
                           /\ row[1 + i] = Sci(Float(a.total_steady_inertial_forces[i]), 6)
                           /\ row[4 + i] = Sci(Float(a.total_unsteady_inertial_forces[i]), 6)
                           /\ row[7 + i] = Sci(Float(a.total_steady_body_forces[i]), 6)
                           /\ row[10 + i] = Sci(Float(a.total_unsteady_body_forces[i]), 6)
                     /\ \A i \in 1..3 :
                           /\ \E j \in 1..Len(header) :
                                 /\ header[j] = <<"mx_total_G", "my_total_G", "mz_total_G">>[i]
                                 /\ row[j] = Sci(Float(TotalInertial(a)[3 + i]), 6)
                           /\ \E j \in 1..Len(header) :
                                 /\ header[j] = <<"mx_total_a", "my_total_a", "mz_total_a">>[i]
                                 /\ row[j] = Sci(Float(TotalBody(a)[3 + i]), 6)

\* C15 (as claimed): the totals screen_output prints for a timestep are the
\* steady totals when the setting 'unsteady' is false and the sum of the
\* steady and the unsteady totals when it is true (the forces in both
\* modes; the moments where they are printed as coefficients).
C15_UnsteadySettingControlsReport ==
    (last = "screen_output" /\ err = "none")
        => \A t \in Processed :
              LET row == output[t + 2]
                  reported == Floats(ReportedTotal(aero[t + 1]))
              IN  IF afc.settings.coefficients
                  THEN \A i \in 1..6 :
                          row[1 + i] = Sci(calculate_coefficients(afc.settings, reported)[i], 3)
                  ELSE \A i \in 1..3 : row[1 + i] = Sci(reported[i], 3)

\* C18 (as claimed): with 'coefficients' false, screen_output prints the
\* header tstep, fx_g, fy_g, fz_g, mx_g, my_g, mz_g and one row per timestep
\* holding the timestep index, the three force components and, in the
\* moment columns, the three moment components of that timestep.
C18_MomentColumnsHoldMoments ==
    (last = "screen_output" /\ err = "none" /\ ~afc.settings.coefficients)
        => /\ Len(output) = afc.ts_max + 1
           /\ output[1] = [k \in 1..7 |->
                             StrCell(<<"tstep", "  fx_g", "  fy_g", "  fz_g",
                                       "  mx_g", "  my_g", "  mz_g">>[k])]
           /\ \A t \in Processed :
                 LET row == output[t + 2]
                     total == Floats(TotalInertial(aero[t + 1]))
                 IN  /\ row[1] = IntCell(t)
                     /\ \A i \in 1..3 :
                           /\ row[1 + i] = Sci(total[i], 3)
                           /\ row[4 + i] = Sci(total[3 + i], 3)

(***************************************************************************)
(* LinearAeroelastic: bounds, data and collaborators                       *)
(*                                                                         *)
(* A Python dict is a record, a missing key a field it does not have.  A   *)
(* matrix is a record of its shape and entries.                            *)
(***************************************************************************)
MaxFlex == 2       \* flexible degrees of freedom of the beam: 1..MaxFlex
MaxRig == 1        \* rigid-body degrees of freedom: 0..MaxRig
MaxGrid == 2       \* degrees of freedom of the aerodynamic grid: 1..MaxGrid
MaxLinOps == 4     \* operations in one behaviour of the LinearAeroelastic model

sys_id == "LinearAeroelastic"

\* None, where an attribute otherwise holds an object.
NoneObject == [none |-> TRUE]

IsNone(x) == HasAttr(x, "none")

\* dict()
EmptyDict == [k \in {} |-> NoneObject]

\* The 'LinearAeroelastic' section of the settings with the given keys.
Section(keys) == [k \in keys |-> [name |-> k]]

\* data.settings: without a 'LinearAssembler' section, with one that has no
\* 'LinearAeroelastic' entry, and with an entry holding any of
\* 'aero_settings' and 'beam_settings'.
DataSettingsSet ==
    {[SHARPy |-> "case"]}
    \cup {[SHARPy |-> "case", LinearAssembler |-> [linear_system |-> sys_id]]}
    \cup {[SHARPy |-> "case",
           LinearAssembler |-> [linear_system |-> sys_id, LinearAeroelastic |-> Section(K)]] :
             K \in SUBSET {"aero_settings", "beam_settings"}}

\* The n x m matrix with every entry v.
Full(n, m, v) == [shape |-> <<n, m>>, at |-> [i \in 1..n |-> [j \in 1..m |-> v]]]

\* np.zeros_like(M)
zeros_like(M) == Full(M.shape[1], M.shape[2], 0)

\* M[r0:r0+rows(B), c0:c0+cols(B)] = B
SetBlock(M, r0, c0, B) ==
    [shape |-> M.shape,
     at |-> [i \in 1..M.shape[1] |-> [j \in 1..M.shape[2] |->
                IF /\ i > r0 /\ i <= r0 + B.shape[1]
                   /\ j > c0 /\ j <= c0 + B.shape[2]
                THEN B.at[i - r0][j - c0]
                ELSE M.at[i][j]]]]

\* A += B
MAdd(M, B) ==
    [shape |-> M.shape,
     at |-> [i \in 1..M.shape[1] |-> [j \in 1..M.shape[2] |-> M.at[i][j] + B.at[i][j]]]]

Min(a, b) == IF a < b THEN a ELSE b

\* M[:n, :]
RowsTo(M, n) ==
    [shape |-> <<Min(n, M.shape[1]), M.shape[2]>>,
     at |-> [i \in 1..Min(n, M.shape[1]) |-> [j \in 1..M.shape[2] |-> M.at[i][j]]]]

\* M[:, :n]
ColsTo(M, n) ==
    [shape |-> <<M.shape[1], Min(n, M.shape[2])>>,
     at |-> [i \in 1..M.shape[1] |-> [j \in 1..Min(n, M.shape[2]) |-> M.at[i][j]]]]

\* np.block([[A, B], [C, D]])
Block2x2(A, B, C, D) ==
    [shape |-> <<A.shape[1] + C.shape[1], A.shape[2] + B.shape[2]>>,
     at |-> [i \in 1..(A.shape[1] + C.shape[1]) |-> [j \in 1..(A.shape[2] + B.shape[2]) |->
                IF i <= A.shape[1]
                THEN (IF j <= A.shape[2] THEN A.at[i][j] ELSE B.at[i][j - A.shape[2]])
                ELSE (IF j <= C.shape[2] THEN C.at[i - A.shape[1]][j]
                      ELSE D.at[i - A.shape[1]][j - C.shape[2]])]]]

\* np.eye(n, m)
eye(n, m) ==
    [shape |-> <<n, m>>, at |-> [i \in 1..n |-> [j \in 1..m |-> IF i = j THEN 1 ELSE 0]]]

\* lin_aeroelastic.LinAeroEla(data, custom_settings_linear): the linearised
\* system before its gains are computed.
LinAeroEla(data, custom_settings) ==
    [settings |-> custom_settings,
     num_dof_flex |-> data.flex,
     num_dof_rig |-> data.rig,
     num_dof_str |-> data.flex + data.rig,
     n_grid |-> data.grid]

\* The attributes LinAeroEla.get_gebm2uvlm_gains computes.
GainAttrs ==
    {"Kss", "Krs", "Csr", "Crr", "Crs", "Kforces", "Kdisp", "Kdisp_vel", "Kvel_disp", "Kvel_vel"}

\* LinAeroEla.get_gebm2uvlm_gains(): the stiffness and damping terms the
\* aerodynamics induce on the beam, the force gain (grid forces to nodal
\* forces) and the displacement and velocity gains (nodal motion to grid).
get_gebm2uvlm_gains(sys) ==
    LET f == sys.num_dof_flex
        r == sys.num_dof_rig
        n == sys.num_dof_str
        g == sys.n_grid
    IN  [settings |-> sys.settings, num_dof_flex |-> f, num_dof_rig |-> r,
         num_dof_str |-> n, n_grid |-> g,
         Kss |-> [shape |-> <<f, f>>, at |-> [i \in 1..f |-> [j \in 1..f |-> i + j]]],
         Krs |-> Full(r, f, 3),
         Csr |-> Full(f, r, 4),
         Crr |-> Full(r, r, 5),
         Crs |-> Full(r, f, 6),
         Kforces   |-> Full(n, g, 1),
         Kdisp     |-> Full(g, n, 1),
         Kdisp_vel |-> Full(g, n, 0),
         Kvel_disp |-> Full(g, n, 2),
         Kvel_vel  |-> Full(g, n, 1)]

\* linearuvlm.LinearUVLM after initialise and assemble: its state-space takes
\* the grid displacements and velocities (and the gust velocities, when the
\* case has gust inputs) and gives the grid forces.
LinearUVLM(data, custom_settings) ==
    [settings |-> custom_settings,
     ss |-> [inputs  |-> IF data.gust THEN 3 * data.grid ELSE 2 * data.grid,
             outputs |-> data.grid,
             states  |-> data.grid,
             gains   |-> <<>>]]

\* linearbeam.LinearBeam after initialise: the structural matrices, no
\* state-space yet.
LinearBeam(data, custom_settings) ==
    [settings |-> custom_settings,
     sys |-> [num_dof |-> data.flex,
              Kstr |-> eye(data.flex + data.rig, data.flex + data.rig),
              Cstr |-> Full(data.flex + data.rig, data.flex + data.rig, 0)],
     ss |-> NoneObject]

\* LinearBeam.assemble(): the state-space of the beam, built from its
\* matrices as they are now.
beam_assemble(beam) ==
    [beam EXCEPT !.ss = [inputs  |-> beam.sys.Kstr.shape[1],
                         outputs |-> 2 * beam.sys.Kstr.shape[1],
                         states  |-> 2 * beam.sys.Kstr.shape[1],
                         Kstr |-> beam.sys.Kstr,
                         Cstr |-> beam.sys.Cstr]]

\* libss.ss.addGain(K, where): K is put in series after the outputs
\* (where = 'out') or before the inputs (where = 'in'); its shape must fit.
addGain(ss, K, where) ==
    IF where = "out"
    THEN IF K.shape[2] # ss.outputs
         THEN [ss |-> ss, err |-> "ValueError"]
         ELSE [ss |-> [ss EXCEPT !.outputs = K.shape[1],
                                 !.gains = Append(@, [where |-> where, K |-> K])],
               err |-> "none"]
    ELSE IF K.shape[1] # ss.inputs
         THEN [ss |-> ss, err |-> "ValueError"]
         ELSE [ss |-> [ss EXCEPT !.inputs = K.shape[2],
                                 !.gains = Append(@, [where |-> where, K |-> K])],
               err |-> "none"]

\* libss.couple(ss01, ss02, K12, K21): the feedback interconnection
\* u01 = K12 y02, u02 = K21 y01, which needs K12 of shape (inputs of ss01,
\* outputs of ss02) and K21 of shape (inputs of ss02, outputs of ss01).
couple(ss01, ss02, K12, K21) ==
    IF \/ K12.shape # <<ss01.inputs, ss02.outputs>>
       \/ K21.shape # <<ss02.inputs, ss01.outputs>>
    THEN [ss |-> NoneObject, err |-> "ValueError"]
    ELSE [ss |-> [states |-> ss01.states + ss02.states,
                  inputs |-> ss01.inputs + ss02.inputs,
                  outputs |-> ss01.outputs + ss02.outputs,
                  ss01 |-> ss01, ss02 |-> ss02, K12 |-> K12, K21 |-> K21],
          err |-> "none"]

(***************************************************************************)
(* LinearAeroelastic: the object and its operations                        *)
(***************************************************************************)
\* LinearAeroelastic.__init__
NewLinearAeroelastic ==
    [sys |-> NoneObject, ss |-> NoneObject, lsys |-> EmptyDict, settings |-> EmptyDict,
     state_variables |-> NoneObject, couplings |-> NoneObject]

\* d[key] with `except KeyError: None` around it, for a dict d.
GetOrNone(d, key) == IF HasAttr(d, key) THEN d[key] ELSE NoneObject

\* LinearAeroelastic.initialise(data)
initialise(o, data) ==
    LET \* lines 25-28
        found == /\ HasAttr(data.settings, "LinearAssembler")
                 /\ HasAttr(data.settings["LinearAssembler"], sys_id)
        own == IF found THEN data.settings["LinearAssembler"][sys_id] ELSE NoneObject
        \* line 30
        o1 == [o EXCEPT !.settings = own, !.sys = LinAeroEla(data, own)]
    IN  \* line 35: None is not subscriptable, and only KeyError is caught
        IF ~found
        THEN [obj |-> o1, err |-> "TypeError"]
        ELSE
        LET uvlm == LinearUVLM(data, GetOrNone(own, "aero_settings"))
            beam == LinearBeam(data, GetOrNone(own, "beam_settings"))
        IN  [obj |-> [o1 EXCEPT !.lsys = SetAttr(SetAttr(o1.lsys, "LinearUVLM", uvlm),
                                                 "LinearBeam", beam)],
             err |-> "none"]

Read(name) == [ev |-> "read", name |-> name]

Call(name) == [ev |-> "call", name |-> name]

\* Lines 62-85 of assemble: the gains are computed and read; the aerodynamic
\* stiffness and damping terms and the two gain matrices are formed.
assemble_gains_read_first(o) ==
    IF ~(GainAttrs \subseteq DOMAIN o.sys)
    THEN [sys |-> o.sys, err |-> "AttributeError", trace |-> <<Read("Kss")>>]
    ELSE [sys |-> get_gebm2uvlm_gains(o.sys), err |-> "none",
          stiff_aero |-> zeros_like(o.lsys.LinearBeam.sys.Kstr),
          damping_aero |-> zeros_like(o.lsys.LinearBeam.sys.Cstr),
          Ksa |-> RowsTo(o.sys.Kforces, o.lsys.LinearBeam.sys.num_dof),
          Kas |-> ColsTo(o.sys.Kdisp, o.lsys.LinearBeam.sys.num_dof),
          trace |-> <<Read("Kss"), Read("Kforces"), Call("get_gebm2uvlm_gains")>>]

assemble_gains(o) ==
    LET beam == o.lsys.LinearBeam
        flex_nodes == o.sys.num_dof_flex
        sys1 == get_gebm2uvlm_gains(o.sys)
        clamped == beam.sys.Kstr.shape = sys1.Kss.shape
        stiff0 == SetBlock(zeros_like(beam.sys.Kstr), 0, 0, sys1.Kss)
        damp0 == zeros_like(beam.sys.Cstr)
        n == beam.sys.num_dof
    IN  [sys |-> sys1, err |-> "none",
         stiff_aero |-> IF clamped THEN stiff0
                        ELSE SetBlock(stiff0, flex_nodes, 0, sys1.Krs),
         damping_aero |-> IF clamped THEN damp0
                          ELSE SetBlock(SetBlock(SetBlock(damp0, 0, flex_nodes, sys1.Csr),
                                                 flex_nodes, flex_nodes, sys1.Crr),
                                        flex_nodes, 0, sys1.Crs),
         Ksa |-> RowsTo(sys1.Kforces, n),
         Kas |-> Block2x2(ColsTo(sys1.Kdisp, n), ColsTo(sys1.Kdisp_vel, n),
                          ColsTo(sys1.Kvel_disp, n), ColsTo(sys1.Kvel_vel, n)),
         trace |-> <<Call("get_gebm2uvlm_gains"), Read("Kss")>>
                   \o (IF clamped THEN <<>>
                       ELSE <<Read("Krs"), Read("Csr"), Read("Crr"), Read("Crs")>>)
                   \o <<Read("Kforces"), Read("Kdisp"), Read("Kdisp_vel"),
                        Read("Kvel_disp"), Read("Kvel_vel")>>]

\* Lines 113-116 of assemble: the two systems are coupled through identity
\* matrices of the shapes the port counts give, square or not.
assemble_couple_if_compatible(uvlm_ss, beam_ss) ==
    IF uvlm_ss.outputs = beam_ss.inputs /\ beam_ss.outputs = uvlm_ss.inputs
    THEN couple(uvlm_ss, beam_ss, eye(uvlm_ss.inputs, beam_ss.outputs),
                eye(beam_ss.inputs, uvlm_ss.outputs))
    ELSE [ss |-> NoneObject, err |-> "ValueError"]

assemble_couple(uvlm_ss, beam_ss) ==
    LET Tas == eye(beam_ss.inputs, uvlm_ss.outputs)
        Tsa == eye(uvlm_ss.inputs, beam_ss.outputs)
    IN  couple(uvlm_ss, beam_ss, Tsa, Tas)

\* LinearAeroelastic.assemble(): `obj` is the object afterwards, `trace` the
\* calls made on self.sys, the beam and the state-spaces and the gain
\* attributes read, in order.
assemble(o) ==
    IF ~HasAttr(o.lsys, "LinearUVLM") \/ ~HasAttr(o.lsys, "LinearBeam")
    THEN [obj |-> o, err |-> "KeyError", trace |-> <<>>]
    ELSE
    LET g == assemble_gains(o)
    IN  IF g.err # "none"
        THEN [obj |-> [o EXCEPT !.sys = g.sys], err |-> g.err, trace |-> g.trace]
        ELSE
        LET \* lines 86-90
            beam == beam_assemble([o.lsys.LinearBeam EXCEPT
                                      !.sys.Cstr = MAdd(@, g.damping_aero),
                                      !.sys.Kstr = MAdd(@, g.stiff_aero)])
            o1 == [o EXCEPT !.sys = g.sys, !.lsys.LinearBeam = beam]
            t1 == g.trace \o <<Call("beam.assemble"), Call("uvlm.ss.addGain(Ksa, out)")>>
            \* line 107
            out == addGain(o.lsys.LinearUVLM.ss, g.Ksa, "out")
        IN  IF out.err # "none"
            THEN [obj |-> o1, err |-> out.err, trace |-> t1]
            ELSE
            LET \* line 108
                inn == addGain(out.ss, g.Kas, "in")
                o2 == [o1 EXCEPT !.lsys.LinearUVLM.ss = out.ss]
                t2 == Append(t1, Call("uvlm.ss.addGain(Kas, in)"))
            IN  IF inn.err # "none"
                THEN [obj |-> o2, err |-> inn.err, trace |-> t2]
                ELSE
                LET o3 == [o2 EXCEPT !.lsys.LinearUVLM.ss = inn.ss]
                    c == assemble_couple(inn.ss, beam.ss)
                    t3 == Append(t2, Call("libss.couple"))
                IN  IF c.err # "none"
                    THEN [obj |-> o3, err |-> c.err, trace |-> t3]
                    ELSE [obj |-> [o3 EXCEPT
                                      !.ss = c.ss,
                                      !.couplings = [Ksa |-> g.Ksa, Kas |-> g.Kas],
                                      !.state_variables = [aero |-> inn.ss.states,
                                                           beam |-> beam.ss.states]],
                          err |-> "none", trace |-> t3]

(***************************************************************************)
(* LinearAeroelastic: the state machine                                    *)
(***************************************************************************)
\* What the LinearAeroelastic model leaves alone.
nonlinear_vars ==
    <<sinit, settings, ts, aero, nonlifting_body, structure, clock, presharpy, afc, coef, output>>

InitLin ==
    /\ sinit = FALSE
    /\ settings = "None"
    /\ ts = 0
    /\ aero = <<>>
    /\ nonlifting_body = <<>>
    /\ structure = <<>>
    /\ clock = 0
    /\ presharpy = "None"
    /\ afc = "None"
    /\ coef = "None"
    /\ output = <<>>
    /\ trace = <<>>
    /\ last = "__init__"
    /\ err = "none"
    /\ \E st \in DataSettingsSet, f \in 1..MaxFlex, r \in 0..MaxRig, g \in 1..MaxGrid,
          gust \in BOOLEAN :
          lin = [data |-> [settings |-> st, flex |-> f, rig |-> r, grid |-> g, gust |-> gust],
                 obj |-> NewLinearAeroelastic,
                 n_ops |-> 0]

\* LinearAeroelastic.initialise(data)
LinInitialise ==
    /\ lin.n_ops < MaxLinOps
    /\ LET r == initialise(lin.obj, lin.data)
       IN  /\ lin' = [lin EXCEPT !.obj = r.obj, !.n_ops = @ + 1]
           /\ err' = r.err
    /\ trace' = <<>>
    /\ last' = "initialise"
    /\ UNCHANGED nonlinear_vars

\* LinearAeroelastic.assemble()
LinAssemble ==
    /\ lin.n_ops < MaxLinOps
    /\ LET r == assemble(lin.obj)
       IN  /\ lin' = [lin EXCEPT !.obj = r.obj, !.n_ops = @ + 1]
           /\ err' = r.err
           /\ trace' = r.trace
    /\ last' = "assemble"
    /\ UNCHANGED nonlinear_vars

\* The object is built anew: LinearAeroelastic().
LinRebuild ==
    /\ lin.n_ops < MaxLinOps
    /\ last # "__init__"
    /\ lin' = [lin EXCEPT !.obj = NewLinearAeroelastic, !.n_ops = @ + 1]
    /\ err' = "none"
    /\ trace' = <<>>
    /\ last' = "__init__"
    /\ UNCHANGED nonlinear_vars

NextLin == LinInitialise \/ LinAssemble \/ LinRebuild

SpecLin == InitLin /\ [][NextLin]_vars

(***************************************************************************)
(* LinearAeroelastic: properties                                           *)
(***************************************************************************)
\* self.ss is not None
Assembled == ~IsNone(lin.obj.ss)

HasComponents ==
    HasAttr(lin.obj.lsys, "LinearUVLM") /\ HasAttr(lin.obj.lsys, "LinearBeam")

\* C11 (as claimed): an assemble on an object that is already assembled
\* changes neither the components (the beam matrices Kstr and Cstr, the
\* state-space of the UVLM with its gains) nor the combined state-space.
C11_AssemblyIsTerminal ==
    [][(last' = "assemble" /\ Assembled)
         => /\ lin'.obj.lsys = lin.obj.lsys
            /\ lin'.obj.ss = lin.obj.ss]_vars

GainsCalledBefore(k) ==
    \E j \in 1..(k - 1) : trace[j] = Call("get_gebm2uvlm_gains")

\* C12: the combined state-space exists only on an object that holds both
\* components; within an assemble, get_gebm2uvlm_gains is called before any
\* gain matrix is read and before the systems are coupled, and an assemble
\* that ends without an exception has coupled them; an assemble on an object
\* without components ends with an exception, its ss still None.
C12_LifecycleOrder ==
    /\ Assembled => HasComponents
    /\ last = "assemble"
          => /\ \A k \in 1..Len(trace) :
                   (trace[k].ev = "read" \/ trace[k] = Call("libss.couple"))
                   => GainsCalledBefore(k)
             /\ err = "none"
                   => /\ Assembled
                      /\ \E k \in 1..Len(trace) : trace[k] = Call("libss.couple")
             /\ ~HasComponents => (err = "KeyError" /\ ~Assembled /\ trace = <<>>)

\* An assemble after initialise has coupled a beam with rigid-body degrees
\* of freedom, reading all the gains.
C12_Witness ==
    /\ last = "assemble"
    /\ err = "none"
    /\ Assembled
    /\ lin.data.rig > 0
    /\ \E k \in 1..Len(trace) : trace[k] = Read("Crs")

C17_InitialiseToleratesMissingSettings ==
    last = "initialise" => (err = "none" /\ HasComponents)

(***************************************************************************)
(* AeroForcesCalculator.run                                                *)
(*                                                                         *)
(* run is followed through a record r: the aerodynamic history, the calls  *)
(* made so far in order, the exception, self.ts, the files written, the    *)
(* lines printed and the value returned.                                   *)
(***************************************************************************)
RunCall(name) == [call |-> name]

\* self.data: None until initialise stores the data object.
self_data(o, data) == IF o.initialised THEN data ELSE NoneObject

\* Lines 90-92: self.ts = 0; self.calculate_forces()
run_calculate_forces(o, aero_hist, struct_hist, s2a) ==
    calculate_forces([aero |-> aero_hist, trace |-> <<RunCall("calculate_forces")>>,
                      err |-> "none", ts |-> 0,
                      files |-> <<>>, lines |-> <<>>, returned |-> NoneObject],
                     struct_hist, s2a, o.ts_max)

\* Lines 93-94: if self.settings['write_text_file']: self.file_output(...)
run_file_output(r, o) ==
    IF r.err # "none" THEN r
    ELSE IF ~o.initialised THEN [r EXCEPT !.err = "TypeError"]
    ELSE IF ~o.settings.write_text_file THEN r
    ELSE LET f == file_output([o EXCEPT !.ts = r.ts], r.aero, o.settings.text_file_name)
         IN  [r EXCEPT !.trace = Append(@, RunCall("file_output")),
                       !.files = @ \o f.files, !.err = f.err, !.ts = f.ts]

\* Lines 95-96: if self.settings['screen_output']: self.screen_output()
run_screen_output(r, o) ==
    IF r.err # "none" THEN r
    ELSE IF ~o.initialised THEN [r EXCEPT !.err = "TypeError"]
    ELSE IF ~o.settings.screen_output THEN r
    ELSE LET s == screen_output([o EXCEPT !.ts = r.ts], r.aero)
         IN  [r EXCEPT !.trace = Append(@, RunCall("screen_output")),
                       !.lines = @ \o s.lines, !.err = s.err, !.ts = s.ts]

\* Lines 97-98: cout.cout_wrap('...Finished', 1); return self.data
run_finish(r, o, data) ==
    IF r.err # "none" THEN r
    ELSE [r EXCEPT !.trace = Append(@, RunCall("cout_wrap")),
                   !.lines = Append(@, <<StrCell("...Finished")>>),
                   !.returned = self_data(o, data)]

\* AeroForcesCalculator.run
AeroForcesCalculator_run_report_first(o, aero_hist, struct_hist, data) ==
    LET r == run_screen_output(
                 run_file_output(
                     [aero |-> aero_hist, trace |-> <<>>, err |-> "none", ts |-> 0,
                      files |-> <<>>, lines |-> <<>>, returned |-> NoneObject],
                     o),
                 o)
    IN  run_finish(
            IF r.err # "none" THEN r
            ELSE calculate_forces([r EXCEPT !.trace = Append(@, RunCall("calculate_forces"))],
                                  struct_hist, data.struct2aero_mapping, o.ts_max),
            o, data)

AeroForcesCalculator_run(o, aero_hist, struct_hist, data) ==
    run_finish(
        run_screen_output(
            run_file_output(
                run_calculate_forces(o, aero_hist, struct_hist, data.struct2aero_mapping),
                o),
            o),
        o, data)

(***************************************************************************)
(* AeroForcesCalculator.run: the state machine                             *)
(***************************************************************************)
\* Snapshots the solver may leave in the history: without dynamic_forces,
\* with them, or with every optional attribute.
RunStores == {{}, {"dynamic_forces"}, OptionalAttrs}

InitRun ==
    /\ sinit = FALSE
    /\ settings = "None"
    /\ nonlifting_body = <<>>
    /\ clock = 0
    /\ coef = "None"
    /\ lin = "None"
    /\ output = <<>>
    /\ ts = 0
    /\ \E unsteady \in BOOLEAN, seed \in 0..MaxSeed, stores \in RunStores :
          /\ presharpy = [struct2aero_mapping |-> struct2aero_mapping("by_column"),
                          unsteady |-> unsteady, seed |-> seed, stores |-> stores]
          /\ structure = <<StructSnapshot(0)>>
          /\ aero = <<AeroSnapshot(seed, 0, StructSnapshot(0),
                                   struct2aero_mapping("by_column"), stores)>>
    \* AeroForcesCalculator.__init__, with the settings initialise will read
    /\ \E write_text_file \in BOOLEAN, screen \in BOOLEAN :
          afc = [initialised |-> FALSE, ts_max |-> 0, ts |-> 0, n_calls |-> 0,
                 folder |-> "output/forces/",
                 settings |-> [write_text_file |-> write_text_file,
                               text_file_name |-> "aeroforces.txt",
                               screen_output |-> screen,
                               unsteady |-> FALSE, coefficients |-> FALSE,
                               q_ref |-> <<1, 1>>, S_ref |-> <<1, 1>>,
                               b_ref |-> <<1, 1>>, c_ref |-> <<1, 1>>]]
    /\ trace = <<>>
    /\ last = "__init__"
    /\ err = "none"

\* AeroForcesCalculator.run
AfcRun ==
    /\ afc.n_calls < MaxCalls
    /\ LET r == AeroForcesCalculator_run(afc, aero, structure, presharpy)
       IN  /\ aero' = r.aero
           /\ trace' = r.trace
           /\ err' = r.err
           /\ afc' = [afc EXCEPT !.ts = r.ts, !.n_calls = @ + 1]
           /\ output' = [files |-> r.files, lines |-> r.lines, returned |-> r.returned]
    /\ last' = "AeroForcesCalculator.run"
    /\ UNCHANGED <<presharpy, structure, ts>>
    /\ UNCHANGED solver_vars

NextRun == SolveTimestep \/ AfcInitialise \/ AfcRun

SpecRun == InitRun /\ [][NextRun]_vars

(***************************************************************************)
(* AeroForcesCalculator.run: properties                                    *)
(***************************************************************************)
\* The positions of the calls of one method in the trace of run.
CallsOf(name) == {k \in 1..Len(trace) : trace[k] = RunCall(name)}

\* The positions at which run computes: the call of calculate_forces and
\* the calls calculate_forces makes.
Computing == {k \in 1..Len(trace) : trace[k].call \in {"calculate_forces", "map_forces_beam_dof"}}

\* The positions at which run produces output.
Reporting == CallsOf("file_output") \cup CallsOf("screen_output") \cup CallsOf("cout_wrap")

\* C21: run calls calculate_forces first and nothing is written or printed
\* until the totals of every timestep 0..ts_max-1 are computed; a run that
\* raises in calculate_forces produces no output.  In a run that returns,
\* file_output is called (once) if and only if write_text_file is true and
\* screen_output (once) if and only if the setting screen_output is true,
\* file_output before screen_output; what is written and printed are the
\* totals just computed, and the value returned is the data object given to
\* initialise.
C21_RunComputesThenReports ==
    last = "AeroForcesCalculator.run"
        => /\ Len(trace) >= 1
           /\ trace[1] = RunCall("calculate_forces")
           /\ \A k \in Computing, j \in Reporting : k < j
           /\ (Reporting # {} \/ output.files # <<>> \/ output.lines # <<>>)
                 => \A t \in Processed : TotalsSet(timestep_info(aero, t))
           /\ (CallsOf("file_output") = {}) => output.files = <<>>
           /\ (Reporting = {}) => output.lines = <<>>
           /\ err = "none"
                 => /\ afc.initialised
                    /\ CallsOf("calculate_forces") = {1}
                    /\ Cardinality(CallsOf("file_output"))
                          = IF afc.settings.write_text_file THEN 1 ELSE 0
                    /\ Cardinality(CallsOf("screen_output"))
                          = IF afc.settings.screen_output THEN 1 ELSE 0
                    /\ \A k \in CallsOf("file_output"), j \in CallsOf("screen_output") : k < j
                    /\ output.files
                          = IF afc.settings.write_text_file
                            THEN file_output(afc, aero, afc.settings.text_file_name).files
                            ELSE <<>>
                    /\ output.lines
                          = (IF afc.settings.screen_output
                             THEN screen_output(afc, aero).lines ELSE <<>>)
                            \o << <<StrCell("...Finished")>> >>
                    /\ output.returned = presharpy

\* A run over two timesteps that returned after writing the two files and
\* printing the table.
C21_Witness ==
    /\ last = "AeroForcesCalculator.run"
    /\ err = "none"
    /\ afc.ts_max = 2
    /\ afc.settings.write_text_file
    /\ afc.settings.screen_output
    /\ Len(output.files) = 2
    /\ Len(output.files[1].rows) = 2
    /\ Len(output.lines) = 4
    /\ CallsOf("file_output") # {}
    /\ CallsOf("screen_output") # {}
    /\ output.returned = presharpy

=============================================================================
